---- MODULE Spec2Model ----
(***************************************************************************)
(* Model of the clawdaunt desktop supervisor (src/src/main.ts): the tunnel *)
(* process supervisor and its health monitor, the gateway process          *)
(* supervisor, the reverse proxy's request handler and the client presence *)
(* tracker.  All handlers run on one event loop, so every handler is one   *)
(* atomic action; asynchronous continuations (an awaited reachability      *)
(* check, a DNS resolution, a timer) are separate actions.  The window of   *)
(* the UI (src/src/App.tsx) is the record ui, which the events a handler   *)
(* sends update in the order sent.                                         *)
(*                                                                         *)
(* The handlers are written as operators from a state record to a state    *)
(* record (startTunnel(s), stopServer(s, r), ...), so that a handler that  *)
(* calls another one is the composition of the operators.  Cur is the      *)
(* record of the current values of the variables and Commit(r) assigns the *)
(* record r to the primed variables.                                       *)
(***************************************************************************)
EXTENDS Integers, Sequences, FiniteSets, TLC

\* ---------------------------------------------------------------- bounds
MaxTunnelSpawns == 2      \* tunnel processes spawned in one behaviour of Spec
MaxRaceSpawns == 3        \* tunnel processes spawned in one behaviour of SpecRace
MaxGatewaySpawns == 2     \* gateway processes spawned in one behaviour
MaxNow == 165000          \* last value of the clock (ms)
TimeStep == 15000         \* granularity of the clock (ms)
DnsQuantum == 16000       \* time one failed resolve4 plus its 1 s wait takes (ms)
MaxWorkspaces == 2        \* workspace ids that can exist

\* ------------------------------------------------------- program constants
CLIENT_AWAY_TIMEOUT == 30000
CLIENT_DISCONNECT_TIMEOUT == 120000
DNS_CEILING == 30000
RESTART_DELAY == 2000
RATE_LIMIT_DELAY == 60000
HEALTH_PERIOD == 10000

FAIL_LIMIT == 3

TProcs == 1..MaxRaceSpawns
GProcs == 1..MaxGatewaySpawns
WsIds == 1..MaxWorkspaces

VARIABLES
  appState,              \* "init" before app 'ready', "ready" after
  cloudflaredBin,        \* findBinary('cloudflared') finds a binary
  openclawBin,           \* findBinary('openclaw') finds a binary
  processEnv,            \* process.env of the main process: a set of <<name, value>>
  config,                \* the persisted Config (config.json)
  intentionallyStopping,
  tunnelRestarting,
  cloudflaredProc,       \* 0 = null, else the id of the referenced process
  tproc,                 \* every tunnel process spawned so far, with its closure
  currentTunnelURL,      \* 0 = '', else p = the URL emitted by tunnel process p
  tunnelHealthInterval,  \* TRUE = an interval is set
  tunnelHealthStatus,
  failCount,             \* failCount of the closure of the latest monitor
  check,                 \* reachability check in flight of the latest monitor
  staleCheck,            \* check in flight that belongs to a replaced monitor
  gatewayProc,           \* 0 = null, else the id of the referenced process
  gproc,                 \* every gateway process spawned so far
  setupHttpServer,       \* TRUE = the placeholder server listens
  proxyServer,           \* TRUE = the reverse proxy listens
  sessions,              \* the session roster
  gatewayWs,             \* TRUE = the observer channel to the gateway is open
  lastClientHeartbeat,
  clientPresenceInterval,\* "off", "armed" or "due" (callback ready to run)
  clientConnectedState,
  clientAwayState,
  now,                   \* Date.now()
  out,                   \* events sent to the UI by the last handler
  ui,                    \* the state of the UI's window (App.tsx)
  resp,                  \* the request the last handler answered, and its answer
  hist,                  \* history: facts about the past used by the properties
  budget                 \* the number of tunnel processes a behaviour may spawn

vars == <<appState, cloudflaredBin, openclawBin, processEnv, config, intentionallyStopping,
          tunnelRestarting, cloudflaredProc, tproc, currentTunnelURL,
          tunnelHealthInterval, tunnelHealthStatus, failCount, check, staleCheck,
          gatewayProc, gproc, setupHttpServer, proxyServer, sessions, gatewayWs,
          lastClientHeartbeat, clientPresenceInterval, clientConnectedState,
          clientAwayState, now, out, ui, resp, hist, budget>>

\* The summary of the AI settings in the body of an answer (none: NoView).
NoView == [aiSource |-> "", apiProvider |-> "", hasApiKey |-> FALSE]

\* A request body: "malformed" (json FALSE) is a body JSON.parse rejects; a
\* parsed body names an aiSource ("" = missing) and a workspaceId (0 = missing).
NoBody == [json |-> FALSE, aiSource |-> "", apiKey |-> "undefined",
           apiProvider |-> "undefined", workspaceId |-> 0]

\* The request the fallback forwarder sent to the target port (none: NoReq).
NoReq == [method |-> "none", url |-> "none", auth |-> FALSE, body |-> NoBody]

\* An answer: status, and for a relayed answer its headers (a set of
\* <<name, value>>) and its body.
NoResp == [method |-> "none", url |-> "none", auth |-> FALSE, upgrade |-> FALSE,
           status |-> 0, forwarded |-> FALSE, view |-> NoView,
           headers |-> {}, body |-> "", sent |-> NoReq]

Cur ==
  [appState |-> appState, cloudflaredBin |-> cloudflaredBin, openclawBin |-> openclawBin,
   processEnv |-> processEnv,
   config |-> config, intentionallyStopping |-> intentionallyStopping,
   tunnelRestarting |-> tunnelRestarting, cloudflaredProc |-> cloudflaredProc,
   tproc |-> tproc, currentTunnelURL |-> currentTunnelURL,
   tunnelHealthInterval |-> tunnelHealthInterval,
   tunnelHealthStatus |-> tunnelHealthStatus, failCount |-> failCount,
   check |-> check, staleCheck |-> staleCheck, gatewayProc |-> gatewayProc,
   gproc |-> gproc, setupHttpServer |-> setupHttpServer, proxyServer |-> proxyServer,
   sessions |-> sessions, gatewayWs |-> gatewayWs,
   lastClientHeartbeat |-> lastClientHeartbeat,
   clientPresenceInterval |-> clientPresenceInterval,
   clientConnectedState |-> clientConnectedState, clientAwayState |-> clientAwayState,
   now |-> now, out |-> <<>>, resp |-> NoResp, hist |-> hist, budget |-> budget]

\* ------------------------------------------------------------------ the UI
\* The state of the window when it has mounted (App.tsx lines 11-14).
UiInit == [tunnelURL |-> "", tunnelHealth |-> "checking",
          clientConnected |-> FALSE, clientAway |-> FALSE]

\* The window's listeners (App.tsx lines 29-41) applied to one event.
uiEvent(u, ev) ==
  CASE ev.ch = "tunnel-url" -> [u EXCEPT !.tunnelURL = ev.val]
    [] ev.ch = "tunnel-health" -> [u EXCEPT !.tunnelHealth = ev.val]
    [] ev.ch = "client-connected" ->
         [u EXCEPT !.clientConnected = TRUE, !.clientAway = FALSE]
    [] ev.ch = "client-away" -> [u EXCEPT !.clientAway = TRUE]
    [] ev.ch = "client-disconnected" ->
         [u EXCEPT !.clientConnected = FALSE, !.clientAway = FALSE]
    [] OTHER -> u

\* The window after the events a handler sent, in the order sent.
RECURSIVE uiEvents(_, _)
uiEvents(u, o) == IF o = <<>> THEN u ELSE uiEvents(uiEvent(u, Head(o)), Tail(o))

Commit(r) ==
  /\ appState' = r.appState
  /\ cloudflaredBin' = r.cloudflaredBin
  /\ openclawBin' = r.openclawBin
  /\ processEnv' = r.processEnv
  /\ config' = r.config
  /\ intentionallyStopping' = r.intentionallyStopping
  /\ tunnelRestarting' = r.tunnelRestarting
  /\ cloudflaredProc' = r.cloudflaredProc
  /\ tproc' = r.tproc
  /\ currentTunnelURL' = r.currentTunnelURL
  /\ tunnelHealthInterval' = r.tunnelHealthInterval
  /\ tunnelHealthStatus' = r.tunnelHealthStatus
  /\ failCount' = r.failCount
  /\ check' = r.check
  /\ staleCheck' = r.staleCheck
  /\ gatewayProc' = r.gatewayProc
  /\ gproc' = r.gproc
  /\ setupHttpServer' = r.setupHttpServer
  /\ proxyServer' = r.proxyServer
  /\ sessions' = r.sessions
  /\ gatewayWs' = r.gatewayWs
  /\ lastClientHeartbeat' = r.lastClientHeartbeat
  /\ clientPresenceInterval' = r.clientPresenceInterval
  /\ clientConnectedState' = r.clientConnectedState
  /\ clientAwayState' = r.clientAwayState
  /\ now' = r.now
  /\ out' = r.out
  /\ ui' = uiEvents(ui, r.out)
  /\ resp' = r.resp
  /\ hist' = r.hist
  /\ budget' = r.budget

\* ----------------------------------------------------------------- helpers
\* loadConfig() on an existing config file (lines 88-93): an empty aiSource,
\* apiKey or apiProvider is replaced by its default.
loadConfig(c) ==
  [c EXCEPT !.aiSource = IF @ = "" THEN "claude-cli" ELSE @,
            !.apiProvider = IF @ = "" THEN "anthropic" ELSE @]

Ev(ch, val) == [ch |-> ch, val |-> val]

send(s, ch, val) == [s EXCEPT !.out = Append(@, Ev(ch, val))]

\* The text of the public URL in the output of tunnel process p ('' for
\* no process): every process is given a URL of its own.
tunnelUrl(p) == IF p = 0 THEN "" ELSE ToString(p)

\* setTimeout(f, delay): the timer itself is a field of the state; the delay
\* it was set with is recorded with the effects of the handler.
setTimeout(s, delay) == [s EXCEPT !.out = Append(@, Ev("setTimeout", ToString(delay)))]

\* setInterval(f, period), recorded in the same way.
setInterval(s, period) == [s EXCEPT !.out = Append(@, Ev("setInterval", ToString(period)))]

Sent(o, ch) == \E i \in 1..Len(o) : o[i].ch = ch

SentVal(o, ch, val) == \E i \in 1..Len(o) : o[i] = Ev(ch, val)

Inc2(n) == IF n >= 2 THEN 2 ELSE n + 1

NoTProc == [st |-> "none", urlFound |-> FALSE, rateLimited |-> FALSE,
            dns |-> "off", dnsElapsed |-> 0, timer |-> FALSE]

NoTHist == [succ |-> 0, monKilled |-> FALSE]

\* History: the last resume with a connected client (none: NoResume).
NoResume == [time |-> 0, silence |-> "connected"]

\* What a gateway process is launched with (lines 868-892): the AI source and
\* key that select its environment and the workspace that is its directory.
NoLaunch == [aiSource |-> "", apiKey |-> "", apiProvider |-> "", activeWorkspaceId |-> 0]

launchOf(c) == [aiSource |-> c.aiSource, apiKey |-> c.apiKey,
                apiProvider |-> c.apiProvider, activeWorkspaceId |-> c.activeWorkspaceId]

NoGProc == [st |-> "none", code |-> "null", settle |-> FALSE, launch |-> NoLaunch,
            env |-> {}]

NoCheck == [url |-> 0, fc |-> 0]

TSpawned(s) == Cardinality({p \in TProcs : s.tproc[p].st # "none"})

GSpawned(s) == Cardinality({g \in GProcs : s.gproc[g].st # "none"})

LiveTunnels == {p \in TProcs : tproc[p].st = "live"}

LiveGateways == {g \in GProcs : gproc[g].st = "live"}

\* ChildProcess.kill(): a live process is signalled and its exit event becomes
\* pending; a process that has died already is not affected.
killTunnel(s) ==
  IF s.cloudflaredProc # 0 /\ s.tproc[s.cloudflaredProc].st = "live"
  THEN [s EXCEPT !.tproc[s.cloudflaredProc].st = "exiting"]
  ELSE s

\* History: the referenced gateway process, if live, is about to be killed by
\* the supervisor on account of `cause`.
markKilled(s, cause) ==
  IF s.gatewayProc # 0 /\ s.gproc[s.gatewayProc].st = "live"
  THEN [s EXCEPT !.hist.g[s.gatewayProc] = cause]
  ELSE s

killGateway(s) ==
  IF s.gatewayProc # 0 /\ s.gproc[s.gatewayProc].st = "live"
  THEN [s EXCEPT !.gproc[s.gatewayProc].st = "exiting",
                 !.gproc[s.gatewayProc].code = "null"]
  ELSE s

\* ------------------------------------------------------ tunnel supervisor
\* setTunnelHealth() without its send.
setTunnelHealthSilent(s, status) == [s EXCEPT !.tunnelHealthStatus = status]

setTunnelHealth(s, status) ==
  send([s EXCEPT !.tunnelHealthStatus = status], "tunnel-health", status)

\* startTunnel(); `cause` is the process on whose account the tunnel is
\* started (0 at app start), recorded in the history only.
startTunnel(s, cause) ==
  IF ~s.cloudflaredBin
  THEN send(s, "error", "cloudflared not found")
  ELSE LET p == TSpawned(s) + 1 IN
       [s EXCEPT !.cloudflaredProc = p,
                 !.tproc = [q \in TProcs |-> IF q = p THEN [NoTProc EXCEPT !.st = "live"]
                                                      ELSE @[q]],
                 !.hist.t = IF cause = 0 THEN @
                            ELSE [@ EXCEPT ![cause].succ = Inc2(@)]]

\* startTunnelHealthMonitor(): a new interval with a new failCount closure; a
\* check of the replaced interval that is still awaited keeps its own closure.
startTunnelHealthMonitor(s) ==
  LET s1 == [s EXCEPT !.tunnelHealthInterval = TRUE,
                      !.staleCheck = IF s.check # 0
                                     THEN [url |-> s.check, fc |-> s.failCount]
                                     ELSE @,
                      !.check = 0,
                      !.failCount = 0]
  IN setInterval(setTunnelHealth(s1, "healthy"), HEALTH_PERIOD)

\* The third-failure branch with the published URL left in place.
monitorRestartKeepUrl(s, u) ==
  LET s1 == setTunnelHealth(s, "down")
      s3 == [s1 EXCEPT !.tunnelRestarting = TRUE,
                       !.hist.t = IF s1.cloudflaredProc # 0
                                     /\ s1.tproc[s1.cloudflaredProc].st = "live"
                                  THEN [@ EXCEPT ![s1.cloudflaredProc].monKilled = TRUE]
                                  ELSE @]
      s4 == [killTunnel(s3) EXCEPT !.cloudflaredProc = 0]
  IN startTunnel(s4, u)

\* The third-failure branch of the interval callback (lines 663-673); u is the
\* URL the failed checks were made against.
monitorRestart(s, u) ==
  LET s1 == setTunnelHealth(s, "down")
      s2 == send([s1 EXCEPT !.currentTunnelURL = 0], "tunnel-url", "")
      s3 == [s2 EXCEPT !.tunnelRestarting = TRUE,
                       !.hist.t = IF s2.cloudflaredProc # 0
                                     /\ s2.tproc[s2.cloudflaredProc].st = "live"
                                  THEN [@ EXCEPT ![s2.cloudflaredProc].monKilled = TRUE]
                                  ELSE @]
      s4 == [killTunnel(s3) EXCEPT !.cloudflaredProc = 0]
  IN startTunnel(s4, u)

\* The part of the interval callback after `await verifyTunnelReachable(..)`
\* for a closure whose failCount is fc; the result is the new state and the
\* closure's new failCount.
checkResult(s, ok, fc, u) ==
  IF ok
  THEN [s |-> IF s.tunnelHealthStatus # "healthy" THEN setTunnelHealth(s, "healthy") ELSE s,
        fc |-> 0]
  ELSE LET s1 == IF fc + 1 = 1 THEN setTunnelHealth(s, "checking") ELSE s IN
       IF fc + 1 >= FAIL_LIMIT
       THEN [s |-> monitorRestart(s1, u), fc |-> 0]
       ELSE [s |-> s1, fc |-> fc + 1]

\* waitForDns() publishing the URL before its hostname is looked up.
waitForDnsPublishFirst(s, p) ==
  IF s.intentionallyStopping
  THEN [s EXCEPT !.tproc[p].dns = "over"]
  ELSE IF s.tproc[p].dnsElapsed > DNS_CEILING
  THEN [killTunnel(s) EXCEPT !.tproc[p].dns = "over"]
  ELSE startTunnelHealthMonitor(
         send([s EXCEPT !.currentTunnelURL = p, !.tproc[p].dns = "resolving"],
              "tunnel-url", tunnelUrl(p)))

\* waitForDns() of the closure of tunnel process p.
waitForDns(s, p) ==
  IF s.intentionallyStopping
  THEN [s EXCEPT !.tproc[p].dns = "over"]
  ELSE IF s.tproc[p].dnsElapsed > DNS_CEILING
  THEN [killTunnel(s) EXCEPT !.tproc[p].dns = "over"]
  ELSE [s EXCEPT !.tproc[p].dns = "resolving"]

\* The exit handler with the rate-limit backoff forgotten.
tunnelExitHandlerNoBackoff(s, p) ==
  IF s.intentionallyStopping THEN s
  ELSE IF s.tunnelRestarting THEN [s EXCEPT !.tunnelRestarting = FALSE]
  ELSE LET s1 == send([s EXCEPT !.currentTunnelURL = 0], "tunnel-url", "")
       IN setTimeout([s1 EXCEPT !.tproc[p].timer = TRUE], RESTART_DELAY)

\* The 'exit' handler of tunnel process p (lines 740-752).
tunnelExitHandler(s, p) ==
  IF s.intentionallyStopping THEN s
  ELSE IF s.tunnelRestarting THEN [s EXCEPT !.tunnelRestarting = FALSE]
  ELSE LET s1 == send([s EXCEPT !.currentTunnelURL = 0], "tunnel-url", "")
           delay == IF s.tproc[p].rateLimited THEN RATE_LIMIT_DELAY ELSE RESTART_DELAY
       IN setTimeout([s1 EXCEPT !.tproc[p].timer = TRUE], delay)

\* ------------------------------------------------------ presence tracker
startClientPresenceMonitor(s) == [s EXCEPT !.clientPresenceInterval = "armed"]

stopClientPresenceMonitor(s) == [s EXCEPT !.clientPresenceInterval = "off"]

\* The reset with the heartbeat time left as it was.
resetPresenceKeepHeartbeat(s) ==
  [s EXCEPT !.clientConnectedState = FALSE,
            !.clientAwayState = FALSE,
            !.hist.awayCount = 0]

\* The reset with the away flag forgotten.
resetPresenceKeepAway(s) ==
  [s EXCEPT !.clientConnectedState = FALSE,
            !.lastClientHeartbeat = 0,
            !.hist.awayCount = 0]

\* The three assignments that reset the presence state (lines 911-913,
\* 935-937, 956-958).
resetPresence(s) ==
  [s EXCEPT !.clientConnectedState = FALSE,
            !.clientAwayState = FALSE,
            !.lastClientHeartbeat = 0,
            !.hist.awayCount = 0]

\* The callback with the away threshold compared by >= instead of >.
presenceTickInclusive(s) ==
  IF ~s.clientConnectedState \/ s.lastClientHeartbeat <= 0 THEN s
  ELSE LET elapsed == s.now - s.lastClientHeartbeat IN
       IF elapsed > CLIENT_DISCONNECT_TIMEOUT
       THEN send(resetPresence(s), "client-disconnected", "true")
       ELSE IF elapsed >= CLIENT_AWAY_TIMEOUT /\ ~s.clientAwayState
       THEN send([s EXCEPT !.clientAwayState = TRUE,
                           !.hist.awayCount = Inc2(@)], "client-away", "true")
       ELSE s

\* The callback without the fire-once guard of the away branch.
presenceTickUnguarded(s) ==
  IF ~s.clientConnectedState \/ s.lastClientHeartbeat <= 0 THEN s
  ELSE LET elapsed == s.now - s.lastClientHeartbeat IN
       IF elapsed > CLIENT_DISCONNECT_TIMEOUT
       THEN send(resetPresence(s), "client-disconnected", "true")
       ELSE IF elapsed > CLIENT_AWAY_TIMEOUT
       THEN send([s EXCEPT !.clientAwayState = TRUE,
                           !.hist.awayCount = Inc2(@)], "client-away", "true")
       ELSE s

\* The callback of the presence interval (lines 610-624).
presenceTick(s) ==
  IF ~s.clientConnectedState \/ s.lastClientHeartbeat <= 0 THEN s
  ELSE LET elapsed == s.now - s.lastClientHeartbeat IN
       IF elapsed > CLIENT_DISCONNECT_TIMEOUT
       THEN send(resetPresence(s), "client-disconnected", "true")
       ELSE IF elapsed > CLIENT_AWAY_TIMEOUT /\ ~s.clientAwayState
       THEN send([s EXCEPT !.clientAwayState = TRUE,
                           !.hist.awayCount = Inc2(@)], "client-away", "true")
       ELSE s

\* History: what a silence of `elapsed` ms would make of a connected client.
silenceClass(elapsed) ==
  IF elapsed > CLIENT_DISCONNECT_TIMEOUT THEN "disconnected"
  ELSE IF elapsed > CLIENT_AWAY_TIMEOUT THEN "away"
  ELSE "connected"

\* The 'resume' handler with the heartbeat clock left as it was.
resumeHandlerKeepClock(s) ==
  IF s.clientConnectedState
  THEN startClientPresenceMonitor(
         [s EXCEPT !.hist.resume = [time |-> s.now, silence |-> silenceClass(s.now - s.lastClientHeartbeat)]])
  ELSE s

\* The 'resume' handler of powerMonitor (lines 1150-1155).  History: the time
\* of the resume and the silence of the client at that time.
resumeHandler(s) ==
  IF s.clientConnectedState
  THEN startClientPresenceMonitor(
         [s EXCEPT !.lastClientHeartbeat = s.now,
                   !.hist.resume = [time |-> s.now, silence |-> silenceClass(s.now - s.lastClientHeartbeat)]])
  ELSE s

\* The authenticated branch of POST /heartbeat (lines 293-301).
heartbeat(s) ==
  LET s1 == [s EXCEPT !.lastClientHeartbeat = s.now,
                      !.hist.hbTime = s.now,
                      !.hist.resume = NoResume,
                      !.hist.quiet = ~s.hist.suspended,
                      !.hist.awayCount = 0]
      s2 == IF ~s1.clientConnectedState
            THEN startClientPresenceMonitor([s1 EXCEPT !.clientConnectedState = TRUE])
            ELSE s1
  IN send([s2 EXCEPT !.clientAwayState = FALSE], "client-connected", "true")

\* ----------------------------------------------------- session observer
\* broadcastSessions() (lines 756-758): the roster is published.
rosterText(r) == IF r = {} THEN "empty" ELSE "sessions"

broadcastSessions(s) == send(s, "sessions-updated", rosterText(s.sessions))

\* closeGatewayWs() (lines 833-844).
closeGatewayWs(s) == broadcastSessions([s EXCEPT !.gatewayWs = FALSE, !.sessions = {}])

\* connectGatewayWs() with the handshake in place of the early return: the
\* channel is opened.
connectGatewayWsOpen(s) == [closeGatewayWs(s) EXCEPT !.gatewayWs = TRUE]

\* connectGatewayWs() returns right after closeGatewayWs() (line 767).
connectGatewayWs(s) == closeGatewayWs(s)

\* ----------------------------------------------------- gateway supervisor
ActiveWs(c) == {i \in 1..Len(c.workspaces) : c.workspaces[i] = c.activeWorkspaceId}

\* startServer() can launch: the binary is found and the active workspace
\* exists and has a path (lines 851-861).
canLaunch(s) ==
  /\ s.openclawBin
  /\ ActiveWs(s.config) # {}
  /\ s.config.activeWorkspaceId \notin s.config.nopath

\* enrichedEnv(extra) (lines 197-203): process.env, then PATH, then extra,
\* a later entry replacing an earlier one of the same name.
override(env, extra) == extra \cup {p \in env : \A q \in extra : q[1] # p[1]}

enrichedEnv(penv, extra) == override(override(penv, {<<"PATH", "SEARCH_PATHS">>}), extra)

\* The env of the gateway with the API key passed whatever the AI source is.
gatewayEnvAnyMode(c) ==
  {<<"OPENCLAW_GATEWAY_TOKEN", c.password>>}
    \cup (IF c.apiKey # ""
          THEN (IF c.apiProvider = "anthropic" THEN {<<"ANTHROPIC_API_KEY", c.apiKey>>}
                ELSE IF c.apiProvider = "openai" THEN {<<"OPENAI_API_KEY", c.apiKey>>}
                ELSE {})
          ELSE {})

\* The env record startServer() builds from the config (lines 869-880).
gatewayEnv(c) ==
  {<<"OPENCLAW_GATEWAY_TOKEN", c.password>>}
    \cup (IF c.aiSource = "api-key" /\ c.apiKey # ""
          THEN (IF c.apiProvider = "anthropic" THEN {<<"ANTHROPIC_API_KEY", c.apiKey>>}
                ELSE IF c.apiProvider = "openai" THEN {<<"OPENAI_API_KEY", c.apiKey>>}
                ELSE {})
          ELSE {})

\* startServer() without the check of the paths of the active workspace.
startServerNoPathCheck(s) ==
  LET s0 == [s EXCEPT !.intentionallyStopping = FALSE] IN
  IF ~s0.openclawBin
  THEN send(s0, "error", "openclaw not found")
  ELSE IF ActiveWs(s0.config) = {}
  THEN send(s0, "error", "No active workspace configured")
  ELSE LET g == GSpawned(s0) + 1
           s1 == send(send(s0, "gateway-log", "clear"), "status", "starting")
       IN [s1 EXCEPT !.gatewayProc = g,
                     !.gproc = [h \in GProcs |->
                                  IF h = g
                                  THEN [NoGProc EXCEPT
                                          !.st = "live", !.settle = TRUE,
                                          !.launch = launchOf(loadConfig(s0.config)),
                                          !.env = enrichedEnv(s0.processEnv,
                                                              gatewayEnv(loadConfig(s0.config)))]
                                  ELSE @[h]]]

startServer(s) ==
  LET s0 == [s EXCEPT !.intentionallyStopping = FALSE] IN
  IF ~s0.openclawBin
  THEN send(s0, "error", "openclaw not found")
  ELSE IF ActiveWs(s0.config) = {} \/ s0.config.activeWorkspaceId \in s0.config.nopath
  THEN send(s0, "error", "No active workspace configured")
  ELSE LET g == GSpawned(s0) + 1
           s1 == send(send(s0, "gateway-log", "clear"), "status", "starting")
       IN [s1 EXCEPT !.gatewayProc = g,
                     !.gproc = [h \in GProcs |->
                                  IF h = g
                                  THEN [NoGProc EXCEPT
                                          !.st = "live", !.settle = TRUE,
                                          !.launch = launchOf(loadConfig(s0.config)),
                                          !.env = enrichedEnv(s0.processEnv,
                                                              gatewayEnv(loadConfig(s0.config)))]
                                  ELSE @[h]]]

stopServer(s, resetClient) ==
  LET s1 == closeGatewayWs([s EXCEPT !.intentionallyStopping = TRUE,
                                     !.hist.quiet = FALSE])
      s2 == send([killGateway(markKilled(s1, IF resetClient THEN "stop" ELSE "restart"))
                    EXCEPT !.gatewayProc = 0], "status", "stopped")
  IN IF resetClient
     THEN send(stopClientPresenceMonitor(resetPresence(s2)), "client-disconnected", "true")
     ELSE s2

\* The 'exit' handler starting the gateway again after an unrequested exit.
gatewayExitHandlerRetry(s, g) ==
  IF ~s.intentionallyStopping
  THEN LET code == s.gproc[g].code
           s1 == send(s, "status", IF code = "0" THEN "stopped" ELSE "error")
           s2 == IF code # "0" THEN send(s1, "error", "openclaw exited") ELSE s1
       IN startServer(
            send(stopClientPresenceMonitor(resetPresence([s2 EXCEPT !.hist.quiet = FALSE])),
                 "client-disconnected", "true"))
  ELSE s

\* The 'exit' handler of gateway process g (lines 907-917).
gatewayExitHandler(s, g) ==
  IF ~s.intentionallyStopping
  THEN LET code == s.gproc[g].code
           s1 == send(s, "status", IF code = "0" THEN "stopped" ELSE "error")
           s2 == IF code # "0" THEN send(s1, "error", "openclaw exited") ELSE s1
       IN send(stopClientPresenceMonitor(resetPresence([s2 EXCEPT !.hist.quiet = FALSE])),
               "client-disconnected", "true")
  ELSE s

\* The settle timer of a launch (lines 920-925).
settleTimer(s) ==
  IF s.gatewayProc # 0 /\ ~s.intentionallyStopping
  THEN connectGatewayWs(send(s, "status", "running"))
  ELSE s

stopSetupServer(s) == [s EXCEPT !.setupHttpServer = FALSE]

stopProxyServer(s) == [s EXCEPT !.proxyServer = FALSE]

\* stopAll() with the child processes killed before the timers and the
\* listeners are torn down.
stopAllChildrenFirst(s) ==
  LET a1 == [s EXCEPT !.intentionallyStopping = TRUE,
                      !.hist.shutdown = TRUE,
                      !.hist.quiet = FALSE]
      a2 == [killTunnel(a1) EXCEPT !.cloudflaredProc = 0]
      a3 == [killGateway(markKilled(a2, "shutdown")) EXCEPT !.gatewayProc = 0]
      a4 == [a3 EXCEPT !.tunnelHealthInterval = FALSE]
      a5 == closeGatewayWs(a4)
      a6 == stopClientPresenceMonitor(a5)
      a7 == stopProxyServer(a6)
      a8 == stopSetupServer(a7)
      a9 == send(resetPresence(a8), "status", "stopped")
      a10 == send([a9 EXCEPT !.currentTunnelURL = 0], "tunnel-url", "")
  IN <<a1, a2, a3, a4, a5, a6, a7, a8, a9, a10>>

\* stopAll() (lines 943-962), statement by statement: the states it passes
\* through, the last one being the state it returns in.
stopAllSteps(s) ==
  LET a1 == [s EXCEPT !.intentionallyStopping = TRUE,
                      !.hist.shutdown = TRUE,
                      !.hist.quiet = FALSE]
      a2 == [a1 EXCEPT !.tunnelHealthInterval = FALSE]
      a3 == closeGatewayWs(a2)
      a4 == stopClientPresenceMonitor(a3)
      a5 == stopProxyServer(a4)
      a6 == stopSetupServer(a5)
      a7 == [killTunnel(a6) EXCEPT !.cloudflaredProc = 0]
      a8 == [killGateway(markKilled(a7, "shutdown")) EXCEPT !.gatewayProc = 0]
      a9 == send(resetPresence(a8), "status", "stopped")
      a10 == send([a9 EXCEPT !.currentTunnelURL = 0], "tunnel-url", "")
  IN <<a1, a2, a3, a4, a5, a6, a7, a8, a9, a10>>

stopAll(s) == stopAllSteps(s)[10]

\* ------------------------------------------------------------ reverse proxy
AISources == {"claude-cli", "codex-cli", "api-key"}

\* What the environment contributes to the answer of one request: the status
\* the gateway answers an authenticated request with, the outcome of the
\* session-file lookup and of the sessions.list subcommand.
GatewayStatuses == {200, 418, 502}

FsStatuses == {200, 404, 500}

NoEnv == [gw |-> 200, fs |-> 200, hdrs |-> {}, body |-> ""]

\* The requests whose answer depends on the gateway's answer, and on the
\* session files or the sessions.list subcommand.
EnvsOf(mu) == IF mu \in {<<"GET", "/global/health">>, <<"POST", "/v1/chat/completions">>}
              THEN [gw : GatewayStatuses, fs : {200}, hdrs : {{}}, body : {""}]
              ELSE IF mu \in {<<"GET", "/v1/sessions">>, <<"GET", "/v1/sessions/k/history">>}
              THEN [gw : {200}, fs : FsStatuses, hdrs : {{}}, body : {""}]
              ELSE {NoEnv}

\* The request bodies of the two POST endpoints.
AiBodies == {NoBody} \cup [json : {TRUE}, aiSource : {"", "bogus"},
                           apiKey : {"undefined"}, apiProvider : {"undefined"},
                           workspaceId : {0}]
                    \cup [json : {TRUE}, aiSource : {"api-key"},
                          apiKey : {"undefined", "", "k"},
                          apiProvider : {"undefined", "", "openai"},
                          workspaceId : {0}]

WsBodies == {NoBody} \cup [json : {TRUE}, aiSource : {""}, apiKey : {"undefined"},
                           apiProvider : {"undefined"}, workspaceId : 0..MaxWorkspaces]

\* The control endpoints, and two requests that match none of them.
Endpoints == {<<"POST", "/heartbeat">>, <<"GET", "/global/health">>,
              <<"GET", "/global/ai-config">>, <<"POST", "/global/ai-config">>,
              <<"GET", "/global/workspaces">>, <<"POST", "/global/workspaces/active">>,
              <<"GET", "/v1/sessions">>, <<"GET", "/v1/sessions/k/history">>}

OtherRequests == {<<"OPTIONS", "/heartbeat">>, <<"POST", "/v1/chat/completions">>}

BodiesOf(mu) == IF mu = <<"POST", "/global/ai-config">> THEN AiBodies
                ELSE IF mu = <<"POST", "/global/workspaces/active">> THEN WsBodies
                ELSE {NoBody}

respond(s, req, status, fwd) ==
  [s EXCEPT !.resp = [method |-> req.method, url |-> req.url, auth |-> req.auth,
                      upgrade |-> FALSE, status |-> status, forwarded |-> fwd,
                      view |-> NoView, headers |-> {}, body |-> "", sent |-> NoReq]]

\* The AI settings in the summary that GET and POST /global/ai-config answer
\* with (lines 314-318, 363-366), made from the config object cfg.
aiConfigView(cfg) ==
  [aiSource |-> cfg.aiSource, apiProvider |-> cfg.apiProvider,
   hasApiKey |-> cfg.apiKey # ""]

respondView(s, req, cfg) ==
  [respond(s, req, 200, FALSE) EXCEPT !.resp.view = aiConfigView(cfg)]

\* The request handler of the placeholder server (lines 234-259).
setupStatus(req) ==
  IF req.method = "OPTIONS" THEN 204
  ELSE IF ~req.auth THEN 401
  ELSE IF req.url = "/global/health" /\ req.method = "GET" THEN 200
  ELSE 404

\* The answer of whatever listens on the target port: the placeholder server,
\* a gateway process (which is launched with the token and rejects a request
\* without it), or nobody (connection refused: 502, line 565).
backendStatus(s, req, env) ==
  IF s.setupHttpServer THEN setupStatus(req)
  ELSE IF \E g \in GProcs : s.gproc[g].st = "live"
  THEN (IF req.auth THEN env.gw ELSE 401)
  ELSE 502

\* The headers both servers set on every answer with res.setHeader (lines
\* 278-279 and 236-237).
ProxyCors == {<<"access-control-allow-origin", "*">>,
              <<"access-control-allow-headers",
                "Authorization, Content-Type, x-openclaw-session-key">>}

SetupCors == {<<"access-control-allow-origin", "*">>,
              <<"access-control-allow-headers", "Authorization, Content-Type">>}

\* res.writeHead(status, given) after res.setHeader: the headers set before
\* are kept where `given` does not name them.
writeHeadKeepSet(set, given) ==
  set \cup {h \in given : \A g \in set : g[1] # h[1]}

writeHead(set, given) ==
  given \cup {h \in set : \A g \in given : g[1] # h[1]}

\* The answer of the placeholder server (lines 234-259).
setupResponse(req) ==
  LET st == setupStatus(req) IN
  [refused |-> FALSE, status |-> st,
   headers |-> writeHead(SetupCors, IF st \in {200, 401}
                                    THEN {<<"content-type", "application/json">>}
                                    ELSE {}),
   body |-> IF st = 200 THEN "ok" ELSE IF st = 401 THEN "Unauthorized" ELSE ""]

\* The answer of whatever listens on the target port to the forwarded
\* request: the placeholder server, a gateway process (its answer to a request
\* with the token is the environment's), or a refused connection.
backendResponse(s, req, env) ==
  IF s.setupHttpServer THEN setupResponse(req)
  ELSE IF \E g \in GProcs : s.gproc[g].st = "live"
  THEN [refused |-> FALSE, status |-> backendStatus(s, req, env),
        headers |-> IF req.auth THEN env.hdrs ELSE {},
        body |-> IF req.auth THEN env.body ELSE "Unauthorized"]
  ELSE [refused |-> TRUE, status |-> 0, headers |-> {}, body |-> ""]

\* The fallback of the proxy (lines 550-568): the request is sent on as it
\* came; the answer is relayed, or 502 when the connection fails.
forward(s, req, env) ==
  LET b == backendResponse(s, req, env) IN
  IF b.refused
  THEN [respond(s, req, 502, TRUE) EXCEPT
          !.resp.headers = writeHead(ProxyCors, {<<"content-type", "application/json">>}),
          !.resp.body = "Backend unavailable",
          !.resp.sent = req]
  ELSE [respond(s, req, b.status, TRUE) EXCEPT
          !.resp.headers = writeHead(ProxyCors, b.headers),
          !.resp.body = b.body,
          !.resp.sent = req]

\* POST /global/ai-config with the apiKey of the body not persisted.
postAiConfigKeepKey(s, req) ==
  LET b == req.body IN
  IF ~b.json THEN respond(s, req, 400, FALSE)
  ELSE IF b.aiSource \notin AISources THEN respond(s, req, 400, FALSE)
  ELSE LET cfg == [loadConfig(s.config) EXCEPT
                     !.aiSource = b.aiSource,
                     !.apiProvider = IF b.apiProvider # "undefined" THEN b.apiProvider ELSE @]
           s1 == startServer(stopServer([s EXCEPT !.config = cfg], FALSE))
       IN respondView(send(s1, "config-changed", "cfg"), req, cfg)

\* POST /global/ai-config after the body has arrived (lines 343-383).
postAiConfig(s, req) ==
  LET b == req.body IN
  IF ~b.json THEN respond(s, req, 400, FALSE)
  ELSE IF b.aiSource \notin AISources THEN respond(s, req, 400, FALSE)
  ELSE LET cfg == [loadConfig(s.config) EXCEPT
                     !.aiSource = b.aiSource,
                     !.apiKey = IF b.apiKey # "undefined" THEN b.apiKey ELSE @,
                     !.apiProvider = IF b.apiProvider # "undefined" THEN b.apiProvider ELSE @]
           s1 == startServer(stopServer([s EXCEPT !.config = cfg], FALSE))
       IN respondView(send(s1, "config-changed", "cfg"), req, cfg)

\* POST /global/workspaces/active saving the id before it is looked up.
postActiveWorkspaceSaveFirst(s, req) ==
  LET b == req.body
      s0 == [s EXCEPT !.config = [loadConfig(@) EXCEPT !.activeWorkspaceId = b.workspaceId]]
  IN
  IF ~b.json THEN respond(s, req, 400, FALSE)
  ELSE IF \A i \in 1..Len(s.config.workspaces) : s.config.workspaces[i] # b.workspaceId
  THEN respond(s0, req, 404, FALSE)
  ELSE LET s1 == startServer(stopServer(s0, FALSE))
       IN respond(send(s1, "config-changed", "cfg"), req, 200, FALSE)

\* POST /global/workspaces/active after the body has arrived (lines 416-443).
postActiveWorkspace(s, req) ==
  LET b == req.body IN
  IF ~b.json THEN respond(s, req, 400, FALSE)
  ELSE IF \A i \in 1..Len(s.config.workspaces) : s.config.workspaces[i] # b.workspaceId
  THEN respond(s, req, 404, FALSE)
  ELSE LET s1 == startServer(stopServer(
                   [s EXCEPT !.config = [loadConfig(@) EXCEPT
                                           !.activeWorkspaceId = b.workspaceId]], FALSE))
       IN respond(send(s1, "config-changed", "cfg"), req, 200, FALSE)

\* The 'request' handler of the proxy (lines 276-569).
handleRequest(s, req, env) ==
  IF req.method = "OPTIONS" THEN respond(s, req, 204, FALSE)
  ELSE IF req.url = "/heartbeat" /\ req.method = "POST"
  THEN (IF ~req.auth THEN respond(s, req, 401, FALSE)
        ELSE respond(heartbeat(s), req, 200, FALSE))
  ELSE IF req.url = "/global/ai-config" /\ req.method = "GET"
  THEN (IF ~req.auth THEN respond(s, req, 401, FALSE)
        ELSE respondView(s, req, loadConfig(s.config)))
  ELSE IF req.url = "/global/ai-config" /\ req.method = "POST"
  THEN (IF ~req.auth THEN respond(s, req, 401, FALSE)
        ELSE postAiConfig(s, req))
  ELSE IF req.url = "/global/workspaces" /\ req.method = "GET"
  THEN (IF ~req.auth THEN respond(s, req, 401, FALSE)
        ELSE respond(s, req, 200, FALSE))
  ELSE IF req.url = "/global/workspaces/active" /\ req.method = "POST"
  THEN (IF ~req.auth THEN respond(s, req, 401, FALSE)
        ELSE postActiveWorkspace(s, req))
  ELSE IF req.url = "/v1/sessions/k/history" /\ req.method = "GET"
  THEN (IF ~req.auth THEN respond(s, req, 401, FALSE)
        ELSE respond(s, req, env.fs, FALSE))
  ELSE IF req.url = "/v1/sessions" /\ req.method = "GET"
  THEN (IF ~req.auth THEN respond(s, req, 401, FALSE)
        ELSE IF ~s.openclawBin THEN respond(s, req, 500, FALSE)
        ELSE respond(s, req, IF env.fs = 200 THEN 200 ELSE 500, FALSE))
  ELSE forward(s, req, env)

\* The 'upgrade' handler of the proxy (lines 572-590): the request line and
\* the headers are replayed to the target port and the sockets are spliced.
handleUpgrade(s, req) ==
  [s EXCEPT !.resp = [method |-> req.method, url |-> req.url, auth |-> req.auth,
                      upgrade |-> TRUE, status |-> 0, forwarded |-> TRUE,
                      view |-> NoView, headers |-> {}, body |-> "", sent |-> NoReq]]

\* -------------------------------------------------------------- IPC handlers
HasWs(c, id) == \E i \in 1..Len(c.workspaces) : c.workspaces[i] = id

\* workspace:create with the directory d chosen in the dialog; the workspace
\* made for directory d is workspace d (lines 1005-1034).
workspaceCreate(s, d) ==
  IF HasWs(s.config, d) THEN s
  ELSE LET wasEmpty == Len(s.config.workspaces) = 0
           c1 == [loadConfig(s.config) EXCEPT !.workspaces = Append(@, d)]
           c2 == IF c1.activeWorkspaceId = 0 THEN [c1 EXCEPT !.activeWorkspaceId = d] ELSE c1
       IN IF wasEmpty
          THEN startServer(stopSetupServer([s EXCEPT !.config = [c2 EXCEPT !.activeWorkspaceId = d]]))
          ELSE [s EXCEPT !.config = c2]

\* workspace:delete with the active id left as it was.
workspaceDeleteKeepActive(s, id) ==
  LET c == loadConfig(s.config)
      ws == SelectSeq(c.workspaces, LAMBDA w : w # id) IN
  IF c.activeWorkspaceId = id
  THEN LET act == IF Len(ws) > 0 THEN ws[1] ELSE 0
           s1 == stopServer([s EXCEPT !.config = [c EXCEPT !.workspaces = ws,
                                                           !.nopath = @ \ {id}]],
                            act = 0)
       IN IF act # 0 THEN startServer(s1) ELSE s1
  ELSE [s EXCEPT !.config = [c EXCEPT !.workspaces = ws, !.nopath = @ \ {id}]]

\* workspace:delete (lines 1047-1060).
workspaceDelete(s, id) ==
  LET c == loadConfig(s.config)
      ws == SelectSeq(c.workspaces, LAMBDA w : w # id) IN
  IF c.activeWorkspaceId = id
  THEN LET act == IF Len(ws) > 0 THEN ws[1] ELSE 0
           s1 == stopServer([s EXCEPT !.config = [c EXCEPT !.workspaces = ws,
                                                           !.nopath = @ \ {id},
                                                           !.activeWorkspaceId = act]],
                            act = 0)
       IN IF act # 0 THEN startServer(s1) ELSE s1
  ELSE [s EXCEPT !.config = [c EXCEPT !.workspaces = ws, !.nopath = @ \ {id}]]

\* workspace:set-active (lines 1062-1071).
workspaceSetActive(s, id) ==
  IF ~HasWs(s.config, id) THEN s
  ELSE startServer(stopServer(
         [s EXCEPT !.config = [loadConfig(@) EXCEPT !.activeWorkspaceId = id]], FALSE))

\* config:set-ai-source (lines 979-995).
setAiSource(s, aiSource, apiKey, apiProvider) ==
  LET c == loadConfig(s.config)
      changed == \/ c.aiSource # aiSource
                 \/ (apiKey # "undefined" /\ c.apiKey # apiKey)
                 \/ (apiProvider # "undefined" /\ c.apiProvider # apiProvider)
      cfg == [c EXCEPT !.aiSource = aiSource,
                       !.apiKey = IF apiKey # "undefined" THEN apiKey ELSE @,
                       !.apiProvider = IF apiProvider # "undefined" THEN apiProvider ELSE @]
      s1 == [s EXCEPT !.config = cfg]
  IN IF changed THEN startServer(stopServer(s1, FALSE)) ELSE s1

\* app 'ready' (lines 1125-1143).
appReady(s) ==
  LET s1 == startTunnel([s EXCEPT !.appState = "ready", !.proxyServer = TRUE], 0) IN
  IF Len(s1.config.workspaces) > 0 /\ s1.config.activeWorkspaceId # 0
  THEN startServer(s1)
  ELSE [s1 EXCEPT !.setupHttpServer = TRUE]

\* ------------------------------------------------------------------- Init
\* The configs the application starts from: the one loadConfig() creates
\* (lines 52-60) and one with a workspace that is active.
InitConfigs ==
  {[password |-> "secret", workspaces |-> <<>>, nopath |-> {}, activeWorkspaceId |-> 0,
    aiSource |-> "claude-cli", apiKey |-> "", apiProvider |-> "anthropic"],
   [password |-> "secret", workspaces |-> <<1>>, nopath |-> {}, activeWorkspaceId |-> 1,
    aiSource |-> "claude-cli", apiKey |-> "", apiProvider |-> "anthropic"]}

\* A config file whose active workspace has an empty list of paths; its id
\* is none of the ids of the workspaces made for a directory.
PathlessWs == MaxWorkspaces + 1

PathlessConfig ==
  [password |-> "secret", workspaces |-> <<PathlessWs>>, nopath |-> {PathlessWs},
   activeWorkspaceId |-> PathlessWs,
   aiSource |-> "claude-cli", apiKey |-> "", apiProvider |-> "anthropic"]

\* The environment the application is started in: without and with an API
\* key exported by the user's shell.
BareEnv == {<<"PATH", "/usr/bin">>}

HostEnvs == {BareEnv, BareEnv \cup {<<"ANTHROPIC_API_KEY", "hostkey">>}}

InitCommon ==
  /\ appState = "init"
  /\ intentionallyStopping = FALSE
  /\ tunnelRestarting = FALSE
  /\ cloudflaredProc = 0
  /\ tproc = [p \in TProcs |-> NoTProc]
  /\ currentTunnelURL = 0
  /\ tunnelHealthInterval = FALSE
  /\ tunnelHealthStatus = "checking"
  /\ failCount = 0
  /\ check = 0
  /\ staleCheck = NoCheck
  /\ gatewayProc = 0
  /\ gproc = [g \in GProcs |-> NoGProc]
  /\ setupHttpServer = FALSE
  /\ proxyServer = FALSE
  /\ sessions = {}
  /\ gatewayWs = FALSE
  /\ lastClientHeartbeat = 0
  /\ clientPresenceInterval = "off"
  /\ clientConnectedState = FALSE
  /\ clientAwayState = FALSE
  /\ now = TimeStep
  /\ out = <<>>
  /\ ui = UiInit
  /\ resp = NoResp

InitHist == [t |-> [p \in TProcs |-> NoTHist], g |-> [g \in GProcs |-> "no"],
             shutdown |-> FALSE,
             suspended |-> FALSE, quiet |-> FALSE, hbTime |-> 0, awayCount |-> 0,
             resume |-> NoResume]

\* The state when the main module has been loaded (lines 206-223), with the
\* files the application finds on the host.
InitHost ==
  /\ InitCommon
  /\ processEnv = BareEnv
  /\ cloudflaredBin \in BOOLEAN
  /\ openclawBin \in BOOLEAN
  /\ config \in InitConfigs
  /\ hist = InitHist
  /\ budget = MaxTunnelSpawns

\* The state on a fresh install: the gateway binary is there and the config is
\* the one loadConfig() creates, without a workspace, so the placeholder
\* server stands in for the gateway.
Init == InitHost /\ openclawBin /\ config.workspaces = <<>>

\* ---------------------------------------------------------------- actions
Fits(r) == r.cloudflaredProc <= r.budget /\ r.gatewayProc <= MaxGatewaySpawns

\* Closure variables that no callback can read any more are dropped: the
\* output flags of a process once its exit handler has run, the start time of
\* a DNS poll once the poll is over.
collectGateway(gp) ==
  [g \in GProcs |->
     LET c == IF gp[g].st \in {"none", "gone"} THEN [gp[g] EXCEPT !.code = "null"] ELSE gp[g]
     IN IF c.st # "live" THEN [c EXCEPT !.launch = NoLaunch, !.env = {}] ELSE c]

collect(s) ==
  [s EXCEPT !.hist.hbTime = IF s.hist.quiet THEN @ ELSE 0,
            !.hist.resume = IF s.clientConnectedState THEN @ ELSE NoResume,
            !.gproc = collectGateway(s.gproc),
            !.tproc = [p \in TProcs |->
     LET c == s.tproc[p]
         c1 == IF c.st = "gone" THEN [c EXCEPT !.urlFound = FALSE, !.rateLimited = FALSE] ELSE c
         c2 == IF c1.dns \in {"off", "over"}
               THEN [c1 EXCEPT !.dnsElapsed = 0,
                               !.dns = IF c1.st = "gone" THEN "off" ELSE @]
               ELSE c1
     IN c2],
            !.hist.t = [p \in TProcs |->
     IF s.tproc[p].st = "gone" THEN [s.hist.t[p] EXCEPT !.monKilled = FALSE] ELSE s.hist.t[p]],
            !.hist.g = [g \in GProcs |->
     IF s.gproc[g].st = "gone" THEN "no" ELSE s.hist.g[g]]]

Do(r) == \E x \in {collect(r)} : Fits(x) /\ Commit(x)

Running == appState = "ready"

AppReady == appState = "init" /\ Do(appReady(Cur))

\* A chunk of output of tunnel process p with a rate-limit signature.
TunnelOutputRateLimit(p) ==
  /\ tproc[p].st = "live" /\ ~tproc[p].urlFound /\ ~tproc[p].rateLimited
  /\ Do(send([Cur EXCEPT !.tproc[p].rateLimited = TRUE], "error", "rate limit"))

\* A chunk of output of tunnel process p with its public URL.
TunnelOutputUrl(p) ==
  /\ tproc[p].st = "live" /\ ~tproc[p].urlFound
  /\ Do(waitForDns([Cur EXCEPT !.tproc[p].urlFound = TRUE], p))

\* The callback of resolver.resolve4 (lines 719-727).
DnsResolved(p, ok) ==
  /\ tproc[p].dns = "resolving"
  /\ ~(check # 0 /\ staleCheck.url # 0)
  /\ IF ok
     THEN Do(startTunnelHealthMonitor(
               send([Cur EXCEPT !.currentTunnelURL = p, !.tproc[p].dns = "over"],
                    "tunnel-url", tunnelUrl(p))))
     ELSE Do([Cur EXCEPT !.tproc[p].dns = "waiting"])

\* The timer set by setTimeout(waitForDns, 1000).
DnsTimer(p) ==
  /\ tproc[p].dns = "waiting"
  /\ Do(waitForDns([Cur EXCEPT !.tproc[p].dnsElapsed = @ + DnsQuantum], p))

\* Tunnel process p dies on its own; its exit event becomes pending.
TunnelDie(p) ==
  /\ tproc[p].st = "live"
  /\ Do([Cur EXCEPT !.tproc[p].st = "exiting"])

\* The exit event of tunnel process p is delivered.
TunnelExit(p) ==
  /\ tproc[p].st = "exiting"
  /\ Do(tunnelExitHandler([Cur EXCEPT !.tproc[p].st = "gone"], p))

\* The timer set by the exit handler of process p fires (line 751).
RestartTimer(p) ==
  /\ tproc[p].timer
  /\ Do(startTunnel([Cur EXCEPT !.tproc[p].timer = FALSE], p))

\* The interval callback up to its await (lines 654-656).
HealthTick ==
  /\ tunnelHealthInterval /\ check = 0
  /\ currentTunnelURL # 0 /\ ~intentionallyStopping
  /\ Do([Cur EXCEPT !.check = currentTunnelURL])

\* The interval callback after its await, for the latest monitor.
HealthCheckDone(ok) ==
  /\ check # 0
  /\ LET r == checkResult([Cur EXCEPT !.check = 0], ok, failCount, check)
     IN Do([r.s EXCEPT !.failCount = r.fc])

\* The interval callback after its await, for a replaced monitor.
StaleCheckDone(ok) ==
  /\ staleCheck.url # 0
  /\ Do(checkResult([Cur EXCEPT !.staleCheck = NoCheck], ok, staleCheck.fc, staleCheck.url).s)

IpcServerStart == Running /\ Do(startServer(Cur))

IpcServerStop == Running /\ Do(stopServer(Cur, TRUE))

\* Gateway process g dies on its own with the given exit code.
GatewayDie(g, code) ==
  /\ gproc[g].st = "live"
  /\ Do([Cur EXCEPT !.gproc[g].st = "exiting", !.gproc[g].code = code])

GatewayExit(g) ==
  /\ gproc[g].st = "exiting"
  /\ Do(gatewayExitHandler([Cur EXCEPT !.gproc[g].st = "gone"], g))

SettleTimer(g) ==
  /\ gproc[g].settle
  /\ Do(settleTimer([Cur EXCEPT !.gproc[g].settle = FALSE]))

\* window-all-closed and before-quit (lines 1158-1165).
StopAll ==
  /\ appState \in {"ready", "quit"}
  /\ Do([stopAll(Cur) EXCEPT !.appState = "quit"])

\* A request arrives at the proxy; requests with a body carry one.
Request(method, url, auth, body, env) ==
  /\ proxyServer
  /\ Do(handleRequest(Cur, [method |-> method, url |-> url, auth |-> auth, body |-> body], env))

\* A connection-upgrade request arrives at the proxy.
Upgrade(auth) ==
  /\ proxyServer
  /\ Do(handleUpgrade(Cur, [method |-> "GET", url |-> "/ws", auth |-> auth]))

IpcWorkspaceCreate(d) == Running /\ Do(workspaceCreate(Cur, d))

IpcWorkspaceDelete(id) == Running /\ Do(workspaceDelete(Cur, id))

IpcWorkspaceSetActive(id) == Running /\ Do(workspaceSetActive(Cur, id))

IpcSetAiSource(aiSource, apiKey, apiProvider) ==
  Running /\ Do(setAiSource(Cur, aiSource, apiKey, apiProvider))

\* The callback of the presence interval runs.
PresenceTick ==
  /\ clientPresenceInterval = "due"
  /\ Do(presenceTick([Cur EXCEPT !.clientPresenceInterval = "armed"]))

\* powerMonitor 'suspend' and 'resume' (lines 1146-1155).
Suspend ==
  /\ Running /\ ~hist.suspended
  /\ Do(stopClientPresenceMonitor([Cur EXCEPT !.hist.suspended = TRUE, !.hist.quiet = FALSE]))

Resume ==
  /\ Running /\ hist.suspended
  /\ Do(resumeHandler([Cur EXCEPT !.hist.suspended = FALSE]))

\* The clock advances by one step.  The presence interval (2 s) is shorter
\* than a step, so a set interval has its callback ready after the step, and
\* the callback runs before the clock advances again.
AdvanceTime ==
  /\ now + TimeStep <= MaxNow
  /\ clientPresenceInterval # "due"
  /\ Do([Cur EXCEPT !.now = @ + TimeStep,
                    !.clientPresenceInterval = IF @ = "armed" THEN "due" ELSE @])

\* ------------------------------------------------------------ specifications
TunnelNext ==
  \/ \E p \in TProcs : TunnelOutputRateLimit(p)
  \/ \E p \in TProcs : TunnelOutputUrl(p)
  \/ \E p \in TProcs, ok \in BOOLEAN : DnsResolved(p, ok)
  \/ \E p \in TProcs : DnsTimer(p)
  \/ \E p \in TProcs : TunnelDie(p)
  \/ \E p \in TProcs : TunnelExit(p)
  \/ \E p \in TProcs : RestartTimer(p)
  \/ HealthTick
  \/ \E ok \in BOOLEAN : HealthCheckDone(ok)
  \/ \E ok \in BOOLEAN : StaleCheckDone(ok)

GatewayNext ==
  \/ IpcServerStart
  \/ IpcServerStop
  \/ \E g \in GProcs, code \in {"0", "1"} : GatewayDie(g, code)
  \/ \E g \in GProcs : GatewayExit(g)
  \/ \E g \in GProcs : SettleTimer(g)

\* The tunnel supervisor and its health monitor, with the operations of the
\* gateway supervisor that write the flag they share, and shutdown.  The
\* tunnel supervisor reads nothing of the gateway supervisor but that flag.
Next == AppReady \/ TunnelNext \/ IpcServerStart \/ IpcServerStop \/ StopAll

Spec == Init /\ [][Next]_vars

\* The same system on a host with both binaries and an active workspace (the
\* gateway is launched at start), and with one more tunnel process, which the
\* races between the monitor and the exit handler need.
InitRace ==
  /\ InitCommon
  /\ processEnv = BareEnv
  /\ cloudflaredBin = TRUE
  /\ openclawBin = TRUE
  /\ config \in InitConfigs /\ config.workspaces # <<>>
  /\ hist = InitHist
  /\ budget = MaxRaceSpawns

SpecRace == InitRace /\ [][Next]_vars

\* The reverse proxy with the operations that decide what listens on the
\* target port: launch and stop of the gateway and the exit of a killed one.
ProxyNext ==
  \/ \E mu \in Endpoints \cup OtherRequests :
       \E b \in BodiesOf(mu), e \in EnvsOf(mu) : Request(mu[1], mu[2], TRUE, b, e)
  \/ \E mu \in Endpoints \cup OtherRequests : Request(mu[1], mu[2], FALSE, NoBody, NoEnv)
  \/ \E a \in BOOLEAN : Upgrade(a)

NextProxy ==
  \/ AppReady
  \/ ProxyNext
  \/ IpcServerStart
  \/ IpcServerStop
  \/ \E g \in GProcs : GatewayExit(g)
  \/ StopAll

InitProxy == InitHost /\ cloudflaredBin

SpecProxy == InitProxy /\ [][NextProxy]_vars

\* The presence tracker with the clock, the heartbeat endpoint, the host's
\* suspend and resume, and the gateway operations that reset the presence
\* (the settle timer of a launch does not touch the presence state).
PresenceNext ==
  \/ Request("POST", "/heartbeat", TRUE, NoBody, NoEnv)
  \/ PresenceTick
  \/ AdvanceTime
  \/ Suspend
  \/ Resume
  \/ \E id \in WsIds : IpcWorkspaceSetActive(id)
  \/ IpcServerStart
  \/ IpcServerStop
  \/ \E g \in GProcs, code \in {"0", "1"} : GatewayDie(g, code)
  \/ \E g \in GProcs : GatewayExit(g)

NextPresence == AppReady \/ PresenceNext \/ StopAll

InitPresence == InitHost /\ cloudflaredBin

SpecPresence == InitPresence /\ [][NextPresence]_vars

\* The gateway supervisor on its own: launches, stops, organic exits, exit
\* events and settle timers.
NextGateway == AppReady \/ GatewayNext \/ StopAll

InitGateway ==
  /\ InitCommon
  /\ processEnv = BareEnv
  /\ cloudflaredBin = TRUE
  /\ openclawBin \in BOOLEAN
  /\ config \in InitConfigs \cup {PathlessConfig}
  /\ hist = InitHist
  /\ budget = MaxTunnelSpawns

SpecGateway == InitGateway /\ [][NextGateway]_vars

\* The operations that change the persisted config (over HTTP and over IPC)
\* with the launches, stops and restarts of the gateway and the exit events
\* of the killed processes.
AiArgs == {<<"claude-cli", "undefined", "undefined">>, <<"api-key", "k", "openai">>,
           <<"api-key", "", "">>}

ConfigNext ==
  \/ \E d \in WsIds : IpcWorkspaceCreate(d)
  \/ \E id \in WsIds : IpcWorkspaceDelete(id)
  \/ \E id \in WsIds : IpcWorkspaceSetActive(id)
  \/ \E a \in AiArgs : IpcSetAiSource(a[1], a[2], a[3])
  \/ \E a \in AiArgs :
       Request("POST", "/global/ai-config", TRUE,
               [json |-> TRUE, aiSource |-> a[1], apiKey |-> a[2],
                apiProvider |-> a[3], workspaceId |-> 0], NoEnv)
  \/ \E b \in WsBodies : Request("POST", "/global/workspaces/active", TRUE, b, NoEnv)
  \/ Request("GET", "/global/ai-config", TRUE, NoBody, NoEnv)
  \/ IpcServerStart
  \/ IpcServerStop
  \/ \E g \in GProcs : GatewayExit(g)

NextConfig == AppReady \/ ConfigNext \/ StopAll

InitConfig == InitHost /\ cloudflaredBin

SpecConfig == InitConfig /\ [][NextConfig]_vars

\* ---------------------------------------------------- launch specification
\* The gateway is launched, stopped and relaunched while the AI source, the
\* API key and the provider are changed over IPC, in an application started
\* with or without an API key in its own environment.
LaunchAiArgs == {<<"claude-cli", "undefined", "undefined">>,
                 <<"codex-cli", "undefined", "undefined">>,
                 <<"api-key", "k", "anthropic">>,
                 <<"api-key", "k", "openai">>,
                 <<"api-key", "k", "gemini">>,
                 <<"api-key", "", "undefined">>}

LaunchNext ==
  \/ \E a \in LaunchAiArgs : IpcSetAiSource(a[1], a[2], a[3])
  \/ IpcWorkspaceCreate(1)
  \/ IpcServerStart
  \/ IpcServerStop
  \/ \E g \in GProcs : GatewayExit(g)
  \/ \E g \in GProcs : SettleTimer(g)

NextLaunch == AppReady \/ LaunchNext \/ StopAll

InitLaunch ==
  /\ InitCommon
  /\ processEnv \in HostEnvs
  /\ cloudflaredBin = FALSE
  /\ openclawBin = TRUE
  /\ config \in InitConfigs
  /\ hist = InitHist
  /\ budget = MaxTunnelSpawns

SpecLaunch == InitLaunch /\ [][NextLaunch]_vars

\* ------------------------------------------------ shutdown specification
\* Every resource that stopAll() tears down can be up at the same time: the
\* tunnel publishes its URL (health timer), a client sends heartbeats
\* (presence timer), the gateway is started and stopped, a first workspace is
\* created on a fresh install, and the application quits.
ShutdownNext ==
  \/ \E p \in TProcs : TunnelOutputUrl(p)
  \/ \E p \in TProcs : DnsResolved(p, TRUE)
  \/ HealthTick
  \/ Request("POST", "/heartbeat", TRUE, NoBody, NoEnv)
  \/ IpcServerStart
  \/ IpcServerStop
  \/ IpcWorkspaceCreate(1)

NextShutdown == AppReady \/ ShutdownNext \/ StopAll

InitShutdown == InitHost

SpecShutdown == InitShutdown /\ [][NextShutdown]_vars

\* ---------------------------------------------- pass-through specification
\* Requests that match no control endpoint, with and without the credential
\* and a body, while the placeholder server, a gateway or nobody listens on
\* the target port; a gateway answers with any of BackendAnswers.
FallbackRequests == {<<"POST", "/v1/chat/completions">>, <<"GET", "/heartbeat">>}

ForwardBodies == {NoBody, [json |-> TRUE, aiSource |-> "", apiKey |-> "undefined",
                           apiProvider |-> "undefined", workspaceId |-> 0]}

BackendAnswers ==
  [gw : GatewayStatuses, fs : {200},
   hdrs : {{}, {<<"x-test", "1">>}, {<<"access-control-allow-origin", "https://a">>}},
   body : {"", "abc"}]

ForwardNext ==
  \/ \E mu \in FallbackRequests, a \in BOOLEAN, b \in ForwardBodies, e \in BackendAnswers :
       Request(mu[1], mu[2], a, b, e)
  \/ IpcServerStart
  \/ IpcServerStop
  \/ IpcWorkspaceCreate(1)

NextForward == AppReady \/ ForwardNext \/ StopAll

InitForward == InitHost /\ cloudflaredBin

SpecForward == InitForward /\ [][NextForward]_vars

\* ------------------------------------------------------------------ claims

\* C1: three consecutive failed checks of a published URL end with health
\* `down` and the URL cleared, and at most one new tunnel process is ever
\* started on account of the tunnel process whose URL failed (by the monitor
\* or by the restart timer of its exit handler, never by both), whichever way
\* the monitor's checks, the exit event and the restart timer interleave.
C1_OneRestartPerOutage ==
  /\ tunnelHealthStatus = "down" => currentTunnelURL = 0
  /\ \A p \in TProcs : hist.t[p].succ <= 1

\* C2: the exit handler of a tunnel process does exactly one of three things:
\* nothing when the deliberate-stop flag is set; only clear the guard when the
\* monitor-restart guard is set; otherwise clear the URL and set one restart
\* timer, of 60 s when a rate limit was detected in the process's output and
\* of 2 s when not.
TunnelControl(tp) ==
  <<intentionallyStopping, tunnelRestarting, currentTunnelURL, cloudflaredProc,
    tunnelHealthInterval, tunnelHealthStatus, failCount, check, staleCheck,
    [q \in TProcs |-> tp[q].timer], {q \in TProcs : tp[q].st = "live"}>>

Timers(o) == {i \in 1..Len(o) : o[i].ch = "setTimeout"}

C2_ExitStep(p) == tproc[p].st = "exiting" /\ tproc'[p].st = "gone"

C2_Disposition(p) ==
  IF intentionallyStopping
  THEN /\ TunnelControl(tproc)' = TunnelControl(tproc)
       /\ out' = <<>>
  ELSE IF tunnelRestarting
  THEN /\ ~tunnelRestarting'
       /\ TunnelControl(tproc)' = [TunnelControl(tproc) EXCEPT ![2] = FALSE]
       /\ out' = <<>>
  ELSE /\ currentTunnelURL' = 0
       /\ SentVal(out', "tunnel-url", "")
       /\ ~tproc[p].timer /\ tproc'[p].timer
       /\ Cardinality(Timers(out')) = 1
       /\ SentVal(out', "setTimeout",
                  IF tproc[p].rateLimited THEN "60000" ELSE "2000")
       /\ TunnelControl(tproc)' =
            [TunnelControl(tproc) EXCEPT ![3] = 0,
                                         ![10] = [@ EXCEPT ![p] = TRUE]]

C2_ExitDisposition == [][\A p \in TProcs : C2_ExitStep(p) => C2_Disposition(p)]_vars

\* A rate-limited tunnel process has exited and its restart was set to 60 s.
C2_Witness ==
  /\ SentVal(out, "setTimeout", "60000")
  /\ \E p \in TProcs : tproc[p].st = "gone" /\ tproc[p].timer

\* C3: when the exit event of a tunnel process is handled and the process was
\* not killed by the health monitor and no full shutdown has run, the handler
\* sets the timer that starts a new tunnel process.
C3_NoMissedRestart ==
  [][\A p \in TProcs :
       (C2_ExitStep(p) /\ ~hist.shutdown /\ ~hist.t[p].monKilled) => tproc'[p].timer]_vars

\* C4: at most one tunnel process is live, and a live tunnel process is the
\* one cloudflaredProc refers to.
C4_OneLiveTunnel ==
  /\ Cardinality(LiveTunnels) <= 1
  /\ \A p \in LiveTunnels : cloudflaredProc = p

\* C5: at most one gateway process is live, and a live gateway process is the
\* one gatewayProc refers to.
C5_OneLiveGateway ==
  /\ Cardinality(LiveGateways) <= 1
  /\ \A g \in LiveGateways : gatewayProc = g

\* C6: a request to a control endpoint whose bearer credential is missing
\* or wrong is answered 401.
C6_ControlEndpoint401 ==
  (<<resp.method, resp.url>> \in Endpoints /\ ~resp.auth) => resp.status = 401

\* C7: a request other than an OPTIONS preflight (a connection upgrade
\* included) whose bearer credential is not the shared secret is answered 401
\* and is not forwarded to the backend.
C7_AuthBeforeForward ==
  (resp.method \notin {"none", "OPTIONS"} /\ ~resp.auth) =>
     (resp.status = 401 /\ ~resp.forwarded)

\* C8: an authenticated heartbeat leaves presence connected and not away; as
\* long as no gateway stop, gateway exit, suspend or shutdown has occurred
\* since the last heartbeat, presence is connected and not away while the
\* silence is at most 30 s, it is away once the poll has run with a silence
\* of more than 30 s, and disconnected once it has run with a silence of more
\* than 120 s.
C8_Silence == now - hist.hbTime

C8_PresenceTimeline ==
  /\ (resp.url = "/heartbeat" /\ resp.status = 200) =>
        (clientConnectedState /\ ~clientAwayState)
  /\ hist.quiet =>
       /\ C8_Silence <= CLIENT_AWAY_TIMEOUT => (clientConnectedState /\ ~clientAwayState)
       /\ C8_Silence <= CLIENT_DISCONNECT_TIMEOUT => clientConnectedState
       /\ clientPresenceInterval # "due" =>
            /\ (C8_Silence > CLIENT_AWAY_TIMEOUT /\ C8_Silence <= CLIENT_DISCONNECT_TIMEOUT)
                  => clientAwayState
            /\ C8_Silence > CLIENT_DISCONNECT_TIMEOUT => ~clientConnectedState

\* The client has been silent for more than 120 s and the poll has just
\* declared it disconnected.
C8_Witness ==
  /\ hist.quiet /\ C8_Silence > CLIENT_DISCONNECT_TIMEOUT
  /\ ~clientConnectedState
  /\ Sent(out, "client-disconnected")

\* C9: between a heartbeat and the next heartbeat or disconnect at most one
\* away event is emitted, and a heartbeat clears the away flag and starts a
\* new episode.
C9_AwayOnce ==
  /\ hist.awayCount <= 1
  /\ (resp.url = "/heartbeat" /\ resp.status = 200) =>
        (~clientAwayState /\ hist.awayCount = 0)

\* The client is away, the away event was emitted once, and the poll has run
\* again with the silence past the away threshold a second time round.
C9_Witness ==
  /\ clientAwayState /\ hist.awayCount = 1
  /\ clientPresenceInterval = "armed"
  /\ lastClientHeartbeat > 0
  /\ now - lastClientHeartbeat >= 2 * CLIENT_AWAY_TIMEOUT
  /\ out = <<>>

\* C10: away implies connected.
C10_AwayImpliesConnected == clientAwayState => clientConnectedState

\* The client is away (and connected) after its away event.
C10_Witness == clientAwayState /\ clientConnectedState /\ Sent(out, "client-away")

\* C11: a restart for a config change leaves the presence state (connected,
\* away, last heartbeat time) as it was and emits no client-disconnected event,
\* in the step of the restart and in the step that delivers the exit event of
\* the gateway process the restart killed.
Presence == <<clientConnectedState, clientAwayState, lastClientHeartbeat>>

C11_RestartStep(g) == hist.g[g] # "restart" /\ hist'.g[g] = "restart"

C11_ExitStep(g) == gproc[g].st = "exiting" /\ gproc'[g].st = "gone"

C11_RestartKeepsPresence ==
  [][\A g \in GProcs :
       (C11_RestartStep(g) \/ (C11_ExitStep(g) /\ hist.g[g] = "restart"))
          => (Presence' = Presence /\ ~Sent(out', "client-disconnected"))]_vars

\* C12: the step that delivers the exit event of a gateway process the
\* supervisor killed (by stop, by a restart or by the shutdown) emits no error
\* event and no `error` status.
C12_KilledExitNoError ==
  [][\A g \in GProcs :
       (C11_ExitStep(g) /\ hist.g[g] # "no")
          => (~Sent(out', "error") /\ ~SentVal(out', "status", "error"))]_vars

\* C13: from every reachable state, calling the gateway stop operation twice
\* in a row emits no error event on the second call, reports `stopped`, leaves
\* no live gateway process, and the state after the second call is the state
\* after the first.
StopOnce == stopServer(Cur, TRUE)

StopTwice == stopServer([StopOnce EXCEPT !.out = <<>>], TRUE)

C13_StopIdempotent ==
  Running =>
    /\ ~Sent(StopTwice.out, "error")
    /\ SentVal(StopTwice.out, "status", "stopped")
    /\ [StopTwice EXCEPT !.out = <<>>] = [StopOnce EXCEPT !.out = <<>>]
    /\ \A g \in GProcs : StopTwice.gproc[g].st # "live"

\* C14: in every state in which the proxy listens, an authenticated POST
\* /global/ai-config with a valid aiSource, an apiKey and a non-empty
\* apiProvider, followed by GET /global/ai-config, reports that aiSource, that
\* apiProvider and hasApiKey = (apiKey is non-empty); the POST does one stop
\* (the referenced gateway process is not live afterwards) followed by one
\* start(), which launches exactly one process when the gateway binary and an
\* active workspace exist, and otherwise launches none and emits one error.
ValidAiBodies == [json : {TRUE}, aiSource : AISources, apiKey : {"", "k"},
                  apiProvider : {"", "anthropic", "openai"}, workspaceId : {0}]

Count(o, ev) == Cardinality({i \in 1..Len(o) : o[i] = ev})

PostAi(b) ==
  handleRequest(Cur, [method |-> "POST", url |-> "/global/ai-config",
                      auth |-> TRUE, body |-> b], NoEnv)

\* GET /global/ai-config in the state p that the POST returned in.
GetAfterPostAi(p) ==
  handleRequest([p EXCEPT !.out = <<>>],
                [method |-> "GET", url |-> "/global/ai-config",
                 auth |-> TRUE, body |-> NoBody], NoEnv)

C14_Reports(b, p, g) ==
  /\ p.resp.status = 200
  /\ g.resp.status = 200
  /\ g.resp.view = [aiSource |-> b.aiSource, apiProvider |-> b.apiProvider,
                    hasApiKey |-> b.apiKey # ""]

C14_OneStop(p) ==
  /\ Count(p.out, Ev("status", "stopped")) = 1
  /\ gatewayProc # 0 => p.gproc[gatewayProc].st # "live"

C14_Launches(p) == Count(p.out, Ev("status", "starting"))

C14_CanLaunch == canLaunch(Cur)

C14_RoundTrip ==
  proxyServer =>
    \A b \in {v \in ValidAiBodies : v.apiProvider # ""} :
      LET p == PostAi(b)
          g == GetAfterPostAi(p)
      IN /\ C14_Reports(b, p, g)
         /\ C14_OneStop(p)
         /\ C14_Launches(p) = IF C14_CanLaunch THEN 1 ELSE 0
         /\ Count(p.out, Ev("error", "openclaw not found"))
              + Count(p.out, Ev("error", "No active workspace configured"))
            = IF C14_CanLaunch THEN 0 ELSE 1

\* The claim as stated: every valid body, and always exactly one launch.
C14_Original ==
  proxyServer =>
    \A b \in ValidAiBodies :
      LET p == PostAi(b)
          g == GetAfterPostAi(p)
      IN C14_Reports(b, p, g) /\ C14_OneStop(p) /\ C14_Launches(p) = 1

\* A POST with aiSource api-key, apiKey k and apiProvider openai has been
\* answered 200 with that summary, and it stopped and launched a gateway.
C14_Witness ==
  /\ resp.method = "POST" /\ resp.url = "/global/ai-config" /\ resp.status = 200
  /\ resp.view = [aiSource |-> "api-key", apiProvider |-> "openai", hasApiKey |-> TRUE]
  /\ aiConfigView(loadConfig(config)) = resp.view
  /\ Count(out, Ev("status", "stopped")) = 1
  /\ Count(out, Ev("status", "starting")) = 1
  /\ \E g \in GProcs : gproc[g].st = "exiting"
  /\ gatewayProc # 0 /\ gproc[gatewayProc].st = "live"

\* ---------------------------------------------------------------------- C15
\* C15: every operation that changes the persisted aiSource, apiKey,
\* apiProvider or activeWorkspaceId stops and starts the gateway in the same
\* turn, so in every reachable state every live gateway process was launched
\* with the currently persisted values of those four fields.
C15_LiveGatewayHasConfig ==
  \A g \in GProcs :
    gproc[g].st = "live" => gproc[g].launch = launchOf(loadConfig(config))

\* The same for the one process the supervisor still refers to.
C15_ReferencedGatewayHasConfig ==
  (gatewayProc # 0 /\ gproc[gatewayProc].st = "live")
    => gproc[gatewayProc].launch = launchOf(loadConfig(config))

\* ---------------------------------------------------------------------- C16
\* start() cannot launch in this state: no gateway binary, no active
\* workspace, or an active workspace without a path.
StartFails == ~canLaunch(Cur)

FailedStart == startServer(Cur)

\* C16: a start() that cannot launch emits an error event, spawns no process
\* and reports neither `starting` nor `running` ...
C16_FailedStart ==
  StartFails =>
    /\ Sent(FailedStart.out, "error")
    /\ FailedStart.gproc = gproc
    /\ FailedStart.gatewayProc = gatewayProc
    /\ ~SentVal(FailedStart.out, "status", "starting")
    /\ ~SentVal(FailedStart.out, "status", "running")

\* ... and no later step (the settle timer, an exit event) reports `starting`
\* or `running` while a start() cannot launch.
C16_NoLaterRunning ==
  [][StartFails' => /\ ~SentVal(out', "status", "starting")
                    /\ ~SentVal(out', "status", "running")]_vars

\* C16: start() with no binary, no active workspace or an active workspace
\* with no path emits an error event, spawns no process, and reports neither
\* `starting` nor, later, `running`.
C16_StartFailsFast == []C16_FailedStart /\ C16_NoLaterRunning

\* server:start has run on a host whose active workspace has no path: the
\* error is reported and no process exists.
C16_Witness ==
  /\ Running
  /\ openclawBin
  /\ config.activeWorkspaceId \in config.nopath
  /\ out = <<Ev("error", "No active workspace configured")>>
  /\ GSpawned(Cur) = 0
  /\ gatewayProc = 0

\* ---------------------------------------------------------------------- C17
\* An authenticated GET /global/health that arrives in the current state, with
\* a gateway that answers its own health endpoint with 200 when it runs.
HealthRequest ==
  handleRequest(Cur, [method |-> "GET", url |-> "/global/health", auth |-> TRUE,
                      body |-> NoBody], NoEnv)

\* C17: in every reachable state before shutdown (no workspace, also after the
\* last workspace is deleted; gateway running; gateway stopped or exited) an
\* authenticated GET /global/health is answered with 200.
C17_HealthAlways200 ==
  (Running /\ ~hist.shutdown) => HealthRequest.resp.status = 200

\* The same while something listens on the target port.
C17_HealthWhileBackend ==
  (Running /\ ~hist.shutdown /\ (setupHttpServer \/ LiveGateways # {}))
    => HealthRequest.resp.status = 200

\* ---------------------------------------------------------------------- C18
\* The states stopAll() passes through when it is called in the current state.
ShutdownSteps == stopAllSteps(Cur)

\* Resource k of the six that stopAll() tears down is down in state r: the
\* health timer, the observer subscription (the roster is cleared and
\* broadcast), the presence timer, the proxy listener, the placeholder
\* listener, the child processes the supervisors refer to.
Down(k, r) ==
  CASE k = 1 -> ~r.tunnelHealthInterval
    [] k = 2 -> r.sessions = {} /\ Sent(r.out, "sessions-updated")
    [] k = 3 -> r.clientPresenceInterval = "off"
    [] k = 4 -> ~r.proxyServer
    [] k = 5 -> ~r.setupHttpServer
    [] k = 6 -> /\ r.cloudflaredProc = 0
                /\ r.gatewayProc = 0
                /\ cloudflaredProc # 0 => r.tproc[cloudflaredProc].st # "live"
                /\ gatewayProc # 0 => r.gproc[gatewayProc].st # "live"

\* stopAll() has acted on resource k when it is in state r.
Touched(k, r) ==
  CASE k = 1 -> r.tunnelHealthInterval # tunnelHealthInterval
    [] k = 2 -> r.sessions # sessions \/ Sent(r.out, "sessions-updated")
    [] k = 3 -> r.clientPresenceInterval # clientPresenceInterval
    [] k = 4 -> r.proxyServer # proxyServer
    [] k = 5 -> r.setupHttpServer # setupHttpServer
    [] k = 6 -> \/ r.cloudflaredProc # cloudflaredProc
                \/ r.gatewayProc # gatewayProc
                \/ r.tproc # tproc
                \/ r.gproc # gproc

C18_InOrder ==
  \A i \in 1..Len(ShutdownSteps) : \A j, k \in 1..6 :
    (j < k /\ Touched(k, ShutdownSteps[i])) => Down(j, ShutdownSteps[i])

C18_Completes ==
  /\ \A k \in 1..6 : Down(k, stopAll(Cur))
  /\ stopAll(Cur).intentionallyStopping
  /\ SentVal(stopAll(Cur).out, "status", "stopped")

C18_TwiceIsOnce ==
  stopAll([stopAll(Cur) EXCEPT !.out = <<>>]) = stopAll(Cur)

C19_QuietAfterShutdown ==
  [][hist.shutdown =>
       /\ \A p \in TProcs : tproc[p].st = "none" => tproc'[p].st = "none"
       /\ \A g \in GProcs : gproc[g].st = "none" => gproc'[g].st = "none"
       /\ ~Sent(out', "error")]_vars

\* The part about processes alone, and the part about error events alone.
C19_NoSpawnAfterShutdown ==
  [][hist.shutdown =>
       /\ \A p \in TProcs : tproc[p].st = "none" => tproc'[p].st = "none"
       /\ \A g \in GProcs : gproc[g].st = "none" => gproc'[g].st = "none"]_vars

C19_NoErrorAfterShutdown == [][hist.shutdown => ~Sent(out', "error")]_vars

\* ---------------------------------------------------------------------- C20
\* The answer the client gets to request q, and the answer the backend gave,
\* when the backend answers with e.
Relayed(q, e) == handleRequest(Cur, q, e).resp

FallbackRequestSet ==
  [method : {"POST"}, url : {"/v1/chat/completions"}, auth : BOOLEAN, body : ForwardBodies]
    \cup [method : {"GET"}, url : {"/heartbeat"}, auth : BOOLEAN, body : ForwardBodies]

\* C20: for a request that matches no control endpoint the proxy forwards
\* method, path, headers and body to the backend port, and relays the
\* backend's status code, its headers and its body to the client unchanged,
\* for every backend response; the only other headers of the answer are the
\* proxy's own CORS headers.
C20_PassThrough ==
  proxyServer =>
    \A q \in FallbackRequestSet, e \in BackendAnswers :
      LET b == backendResponse(Cur, q, e) IN
      ~b.refused =>
        /\ Relayed(q, e).forwarded
        /\ Relayed(q, e).sent = q
        /\ Relayed(q, e).status = b.status
        /\ b.headers \subseteq Relayed(q, e).headers
        /\ Relayed(q, e).headers \ b.headers \subseteq ProxyCors
        /\ Relayed(q, e).body = b.body

\* The gateway has answered a forwarded request with 418, X-Test: 1 and "abc",
\* and the client got exactly that.
C20_Witness ==
  /\ LiveGateways # {}
  /\ resp.forwarded
  /\ resp.method = "POST" /\ resp.url = "/v1/chat/completions" /\ resp.auth
  /\ resp.sent = [method |-> "POST", url |-> "/v1/chat/completions", auth |-> TRUE,
                  body |-> [json |-> TRUE, aiSource |-> "", apiKey |-> "undefined",
                            apiProvider |-> "undefined", workspaceId |-> 0]]
  /\ resp.status = 418
  /\ resp.headers = {<<"x-test", "1">>} \cup ProxyCors
  /\ resp.body = "abc"

\* ---------------------------------------------------------------------- C21
\* C21: in every reachable state where no client is marked connected the
\* presence timer is not running (it is stopped, not merely returning
\* early), also after a disconnect produced by the 120 s timeout.
C21_IdleTimerStopped == ~clientConnectedState => clientPresenceInterval = "off"

\* The same, not counting the disconnects the interval callback produces.
C21_IdleTimerStoppedUnlessTimeout ==
  [][(clientConnectedState /\ ~clientConnectedState'
        /\ ~(clientPresenceInterval = "due" /\ Sent(out', "client-disconnected")
              /\ ~Sent(out', "status") /\ ~Sent(out', "sessions-updated")))
       => clientPresenceInterval' = "off"]_vars

\* ---------------------------------------------------------------------- C22
\* The step is the 'resume' handler, and the step is the callback of the
\* presence interval.
C22_ResumeStep == hist.suspended /\ ~hist'.suspended

C22_TickStep == clientPresenceInterval = "due" /\ clientPresenceInterval' = "armed"

\* C22: if a client is marked connected when the host resumes, the heartbeat
\* clock restarts from the resume time and the presence loop runs again; as
\* long as the client stays connected the loop emits no away event before
\* 30 s and no disconnected event before 120 s of silence measured from the
\* resume, however long the suspend lasted.
C22_ResumeRestartsClock ==
  [][/\ (C22_ResumeStep /\ clientConnectedState) =>
          /\ clientConnectedState'
          /\ lastClientHeartbeat' = now'
          /\ clientPresenceInterval' = "armed"
     /\ (C22_TickStep /\ hist.resume # NoResume) =>
          /\ Sent(out', "client-away") => now' - hist.resume.time > CLIENT_AWAY_TIMEOUT
          /\ Sent(out', "client-disconnected")
               => now' - hist.resume.time > CLIENT_DISCONNECT_TIMEOUT]_vars

\* The host has resumed with a client whose last heartbeat was more than
\* 120 s old, and the presence loop has run since without any event.
C22_Witness ==
  /\ hist.resume.silence = "disconnected"
  /\ now > hist.resume.time
  /\ lastClientHeartbeat = hist.resume.time
  /\ clientConnectedState /\ ~clientAwayState
  /\ clientPresenceInterval = "armed"
  /\ out = <<>>

\* ---------------------------------------------------------------------- C23
\* C23: the session roster is empty in every reachable state: no sequence of
\* gateway starts, restarts, stops and shutdowns opens the observer channel
\* or adds a session record, and every roster published to the UI is empty.
C23_RosterEmpty ==
  /\ sessions = {}
  /\ ~gatewayWs
  /\ \A i \in 1..Len(out) : out[i].ch = "sessions-updated" => out[i].val = "empty"

\* The settle timer of a running gateway has called connectGatewayWs(): the
\* phase is running and the roster was published.
C23_Witness ==
  /\ out = <<Ev("status", "running"), Ev("sessions-updated", "empty")>>
  /\ gatewayProc # 0 /\ gproc[gatewayProc].st = "live"
  /\ sessions = {} /\ ~gatewayWs

\* C24: the environment of a live gateway process holds the shared secret;
\* for each of the two providers it holds the API key of the config under the
\* provider's variable exactly when the gateway was launched with the AI
\* source api-key, a key set and that provider; in every other case
\* (a CLI source, even with a key stored) the variable is as in the
\* environment of the application itself, nothing of the config in it.
ApiKeyVar == [anthropic |-> "ANTHROPIC_API_KEY", openai |-> "OPENAI_API_KEY"]

valuesOf(env, name) == {p[2] : p \in {q \in env : q[1] = name}}

C24_KeyInjected(l, provider) ==
  l.aiSource = "api-key" /\ l.apiKey # "" /\ l.apiProvider = provider

C24_LaunchEnv ==
  \A g \in GProcs :
    gproc[g].st = "live" =>
      LET env == gproc[g].env
          l   == gproc[g].launch
      IN /\ valuesOf(env, "OPENCLAW_GATEWAY_TOKEN") = {config.password}
         /\ \A provider \in DOMAIN ApiKeyVar :
              valuesOf(env, ApiKeyVar[provider]) =
                IF C24_KeyInjected(l, provider) THEN {l.apiKey}
                ELSE valuesOf(processEnv, ApiKeyVar[provider])

\* A gateway launched with a CLI source while a key is stored for the
\* provider anthropic: its environment has the secret and no key of the
\* config, only the key the application was started with.
C24_Witness ==
  /\ gatewayProc # 0
  /\ gproc[gatewayProc].st = "live"
  /\ gproc[gatewayProc].launch.aiSource = "claude-cli"
  /\ gproc[gatewayProc].launch.apiKey = "k"
  /\ gproc[gatewayProc].launch.apiProvider = "anthropic"
  /\ <<"OPENCLAW_GATEWAY_TOKEN", "secret">> \in gproc[gatewayProc].env
  /\ valuesOf(gproc[gatewayProc].env, "OPENAI_API_KEY") = {}
  /\ valuesOf(gproc[gatewayProc].env, "ANTHROPIC_API_KEY") = {"hostkey"}

\* C25: a URL is published, and a health monitor is started, only in the
\* step in which the DNS lookup of the hostname of exactly that URL, begun
\* after the tunnel process emitted it, returns with success; a URL that was
\* emitted and whose poll is still under way is not the published URL.
C25_Resolved(p) == tproc[p].dns = "resolving" /\ tproc'[p].dns \in {"over", "off"}

C25_Publishes == currentTunnelURL' # 0 /\ currentTunnelURL' # currentTunnelURL

C25_MonitorStarts == Sent(out', "setInterval")

C25_PollPending(p) == tproc[p].dns \in {"resolving", "waiting"}

C25_PublishedAfterDns ==
  /\ [](\A p \in TProcs : C25_PollPending(p) => currentTunnelURL # p)
  /\ [][/\ C25_Publishes => C25_Resolved(currentTunnelURL')
        /\ C25_MonitorStarts => /\ currentTunnelURL' # 0
                                /\ C25_Resolved(currentTunnelURL')
                                /\ tunnelHealthInterval']_vars

\* The URL of a second tunnel process has just been published and its monitor
\* started, in the step that ended its DNS poll.
C25_Witness ==
  /\ currentTunnelURL = 2
  /\ tproc[2].dns = "over"
  /\ tunnelHealthInterval
  /\ out = <<Ev("tunnel-url", tunnelUrl(2)), Ev("tunnel-health", "healthy"),
             Ev("setInterval", "10000")>>

\* C26: a DNS poll never ends with neither outcome: unless a full shutdown
\* has begun, the step that ends the poll for the URL of tunnel process p
\* either publishes that URL or leaves p killed (for the exit handler to
\* start the next process).
C26_PollEnds(p) == C25_PollPending(p) /\ ~C25_PollPending(p)'

C26_PollEndsWithOutcome ==
  [][\A p \in TProcs :
       (C26_PollEnds(p) /\ ~hist'.shutdown) =>
          \/ currentTunnelURL' = p
          \/ tproc'[p].st # "live"]_vars

\* C27: a step of the health monitor (the interval callback up to its await,
\* or the part after the await of a check in flight) taken while the
\* deliberate-stop flag is set changes neither the tunnel health, nor the
\* published URL, nor the monitor-restart guard, and neither kills nor starts
\* a tunnel process.
C27_CheckStarts == check = 0 /\ check' # 0

C27_CheckCompletes ==
  \/ check # 0 /\ check' = 0 /\ staleCheck' = staleCheck
  \/ staleCheck.url # 0 /\ staleCheck'.url = 0

C27_TunnelProcs(tp) == [q \in TProcs |-> tp[q].st]

C27_MonitorIdleWhileStopping ==
  [][(intentionallyStopping /\ (C27_CheckStarts \/ C27_CheckCompletes)) =>
        /\ tunnelHealthStatus' = tunnelHealthStatus
        /\ currentTunnelURL' = currentTunnelURL
        /\ tunnelRestarting' = tunnelRestarting
        /\ cloudflaredProc' = cloudflaredProc
        /\ C27_TunnelProcs(tproc)' = C27_TunnelProcs(tproc)]_vars

\* C28: the health becomes `down` only in the step that completes, with a
\* failure, a check of the running monitor whose two checks before had failed
\* as well with no success since; a success of the running monitor resets its
\* failure counter and sets the health to `healthy`, and its second
\* consecutive failure leaves the health at `checking`.
C28_RunningCheckCompletes == check # 0 /\ check' = 0 /\ staleCheck' = staleCheck

C28_BecomesDown == tunnelHealthStatus # "down" /\ tunnelHealthStatus' = "down"

\* C28, its first statement: the health becomes `down` only in the step that
\* completes, with a failure, a check of the running monitor whose two checks
\* before had failed with no success since.
C28_DownOnlyByRunningMonitor ==
  [][C28_BecomesDown => (C28_RunningCheckCompletes /\ failCount = FAIL_LIMIT - 1)]_vars

\* C28, the steps of the counter: a success of the running monitor resets its
\* failure counter and sets the health to `healthy`, and its second
\* consecutive failure leaves the health at `checking`.
C28_CounterSteps ==
  [][/\ (C28_RunningCheckCompletes /\ failCount' = 0 /\ failCount < FAIL_LIMIT - 1) =>
           tunnelHealthStatus' = "healthy"
     /\ (C28_RunningCheckCompletes /\ failCount = 1 /\ failCount' = 2) =>
           (tunnelHealthStatus = "checking" /\ tunnelHealthStatus' = "checking")]_vars

\* C29: the supervisor never retries the gateway on its own: neither the
\* exit handler of a gateway process (whether or not the exit was requested)
\* nor a settle timer starts a gateway process, so after an unrequested exit
\* a process is started only by a step that is neither of them: a start()
\* or a restart that was invoked.
C29_ExitHandled(g) == gproc[g].st = "exiting" /\ gproc'[g].st = "gone"

C29_SettleFired(g) == gproc[g].settle /\ ~gproc'[g].settle

C29_Started == \E g \in GProcs : gproc[g].st = "none" /\ gproc'[g].st # "none"

C29_NoRetry ==
  [][(\E g \in GProcs : C29_ExitHandled(g) \/ C29_SettleFired(g)) =>
        /\ ~C29_Started
        /\ gatewayProc' = gatewayProc]_vars

\* The exit handler of a gateway process that died on its own with a
\* non-zero code has just run: the failure is reported and no gateway
\* process is live.
C29_Witness ==
  /\ SentVal(out, "status", "error")
  /\ Sent(out, "error")
  /\ gatewayProc # 0
  /\ gproc[gatewayProc].st = "gone"
  /\ \A g \in GProcs : gproc[g].st # "live"

\* C30: the phase `running` is reported only by the settle timer of the
\* process launched by the most recent start(), and only while that process
\* is still alive: never for a process that exited during its settle delay,
\* and never by the timer of an earlier launch for a later one.
C30_RunningReported == SentVal(out', "status", "running")

C30_RunningOnlyForSettledLaunch ==
  [][C30_RunningReported =>
        /\ gatewayProc # 0
        /\ C29_SettleFired(gatewayProc)
        /\ gproc[gatewayProc].st = "live"
        /\ gatewayProc' = gatewayProc]_vars

\* C30, its second statement: `running` is never reported by the settle timer
\* of a gateway process that has exited during its settle delay.
C30_NoRunningForDeadLaunch ==
  [][C30_RunningReported =>
        \E g \in GProcs : C29_SettleFired(g) /\ gproc[g].st = "live"]_vars

\* C31: a config update request that is rejected (POST /global/ai-config
\* answered 400, POST /global/workspaces/active answered 400 or 404) leaves
\* the persisted config and the gateway supervisor as they were (nothing
\* stopped, nothing started) and emits no event, so no config-changed
\* notification.
C31_ConfigPosts == {"/global/ai-config", "/global/workspaces/active"}

C31_Rejected(r) ==
  r.method = "POST" /\ r.url \in C31_ConfigPosts /\ r.auth /\ r.status \in {400, 404}

C31_RejectedChangesNothing ==
  [][C31_Rejected(resp') =>
        /\ config' = config
        /\ gatewayProc' = gatewayProc
        /\ gproc' = gproc
        /\ intentionallyStopping' = intentionallyStopping
        /\ gatewayWs' = gatewayWs
        /\ ~Sent(out', "config-changed")
        /\ out' = <<>>]_vars

\* An unknown workspace id has just been answered 404 while a gateway
\* process is live and a workspace is active.
C31_Witness ==
  /\ C31_Rejected(resp)
  /\ resp.status = 404
  /\ config.activeWorkspaceId # 0
  /\ gatewayProc # 0
  /\ gproc[gatewayProc].st = "live"
  /\ out = <<>>

\* C32: no operation of the gateway supervisor (start(), stop() with and
\* without the presence reset, restart) kills or starts a tunnel process or
\* changes the published URL or the tunnel health, and after it the exit
\* handler of a tunnel process, the DNS poll and the interval callback of the
\* health monitor do what they would have done before it.
C32_TunnelView(s) ==
  <<s.currentTunnelURL, s.tunnelHealthStatus, s.cloudflaredProc, s.tunnelRestarting,
    s.tunnelHealthInterval, s.check,
    [p \in TProcs |-> <<s.tproc[p].st, s.tproc[p].dns, s.tproc[p].timer>>]>>

C32_GatewayOps(s) ==
  {startServer(s), stopServer(s, TRUE), stopServer(s, FALSE),
   startServer(stopServer(s, FALSE))}

C32_MonitorChecks(s) ==
  s.tunnelHealthInterval /\ s.currentTunnelURL # 0 /\ ~s.intentionallyStopping

C32_SameTunnelBehaviour(r, s) ==
  /\ C32_TunnelView(r) = C32_TunnelView(s)
  /\ C32_MonitorChecks(r) = C32_MonitorChecks(s)
  /\ \A p \in TProcs :
       /\ s.tproc[p].st \in {"live", "exiting"} =>
            C32_TunnelView(tunnelExitHandler(r, p)) = C32_TunnelView(tunnelExitHandler(s, p))
       /\ s.tproc[p].dns = "waiting" =>
            C32_TunnelView(waitForDns(r, p)) = C32_TunnelView(waitForDns(s, p))

C32_GatewayOpsLeaveTunnel ==
  \A r \in C32_GatewayOps(Cur) : C32_SameTunnelBehaviour(r, Cur)

\* C33: after every authenticated POST /heartbeat the client is connected
\* and not away, the presence interval is set, and a client-connected event
\* has been emitted, also when the client was connected already and the
\* interval was not set.
C33_Heartbeat(r) == r.method = "POST" /\ r.url = "/heartbeat" /\ r.auth

C33_HeartbeatStartsMonitor ==
  [][C33_Heartbeat(resp') =>
        /\ clientConnectedState'
        /\ ~clientAwayState'
        /\ clientPresenceInterval' # "off"
        /\ SentVal(out', "client-connected", "true")]_vars

\* C34: a step of the DNS poll of a tunnel process whose exit handler has run
\* or that is no longer the current process has no effect: it publishes no
\* URL, starts no monitor and kills no process; and a published URL is the
\* URL of the current tunnel process, whose exit handler has not run.
C34_PollStep(p) == C25_PollPending(p) /\ tproc'[p].dns # tproc[p].dns

C34_Superseded(p) == tproc[p].st = "gone" \/ cloudflaredProc # p

C34_StalePollInert ==
  /\ [][\A p \in TProcs :
          (C34_PollStep(p) /\ C34_Superseded(p)) =>
             /\ currentTunnelURL' = currentTunnelURL
             /\ ~C25_MonitorStarts
             /\ C27_TunnelProcs(tproc)' = C27_TunnelProcs(tproc)]_vars
  /\ [](currentTunnelURL # 0 =>
          /\ cloudflaredProc = currentTunnelURL
          /\ tproc[currentTunnelURL].st \in {"live", "exiting"})

\* C35: the monitor-restart guard is set only while the exit event of a
\* tunnel process killed by the health monitor is pending, and the step that
\* clears it is the exit event of such a process.
C35_MonitorKillPending(p) == tproc[p].st = "exiting" /\ hist.t[p].monKilled

C35_GuardOnlyWhilePending ==
  /\ [](tunnelRestarting => \E p \in TProcs : C35_MonitorKillPending(p))
  /\ [][(tunnelRestarting /\ ~tunnelRestarting') =>
          \E p \in TProcs : C35_MonitorKillPending(p) /\ tproc'[p].st = "gone"]_vars

\* C35, its consequence: the guard is never set while no exit event of any
\* tunnel process is pending (where it would suppress the restart after the
\* next exit, that of a process that crashed on its own).
C35_GuardNeverStuck ==
  tunnelRestarting => \E p \in TProcs : tproc[p].st = "exiting"

\* C36: the client is marked connected exactly when the time of the last
\* heartbeat is not zero.
C36_ConnectedIffHeartbeat == clientConnectedState <=> lastClientHeartbeat # 0

\* The presence interval has just marked a silent client disconnected: both
\* the mark and the heartbeat time are cleared.
C36_Witness ==
  /\ out = <<Ev("client-disconnected", "true")>>
  /\ clientPresenceInterval = "armed"
  /\ ~clientConnectedState
  /\ lastClientHeartbeat = 0
  /\ now > CLIENT_DISCONNECT_TIMEOUT

\* C37: while the tunnel health is `down` no URL is published: the step that
\* sets the health to `down` clears the URL, and the step that publishes a
\* URL sets the health to `healthy`.
C37_DownImpliesNoUrl ==
  /\ [](tunnelHealthStatus = "down" => currentTunnelURL = 0)
  /\ [][/\ C28_BecomesDown => currentTunnelURL' = 0
        /\ C25_Publishes => tunnelHealthStatus' = "healthy"]_vars

\* The monitor has just given up on the URL of the first tunnel process
\* after its third failed check and started the second process.
C37_Witness ==
  /\ tunnelHealthStatus = "down"
  /\ currentTunnelURL = 0
  /\ cloudflaredProc = 2
  /\ SentVal(out, "tunnel-health", "down")
  /\ SentVal(out, "tunnel-url", "")

\* C38: the active workspace id is null exactly when the list of workspaces
\* is empty, and otherwise it is the id of a workspace in the list.
C38_ActiveIdValid ==
  /\ config.activeWorkspaceId = 0 <=> config.workspaces = <<>>
  /\ config.activeWorkspaceId # 0 => HasWs(config, config.activeWorkspaceId)

\* Workspace 1 has been deleted and workspace 2 remains: workspace 2 is
\* active and the gateway has just been restarted for it.
C38_Witness ==
  /\ config.workspaces = <<2>>
  /\ config.activeWorkspaceId = 2
  /\ out = <<Ev("sessions-updated", "empty"), Ev("status", "stopped"),
             Ev("gateway-log", "clear"), Ev("status", "starting")>>
  /\ gatewayProc = 2
  /\ gproc[2].launch.activeWorkspaceId = 2

\* C39: the UI's view of the tunnel equals the supervisor's state: in every
\* reachable state the URL the window shows is the published URL and the
\* health it shows is the current health, and every step that changes the
\* published URL or the health sends the event with the new value.
C39_UrlChanges == currentTunnelURL' # currentTunnelURL

C39_HealthChanges == tunnelHealthStatus' # tunnelHealthStatus

C39_UiShowsTunnel ==
  /\ [](/\ ui.tunnelURL = tunnelUrl(currentTunnelURL)
        /\ ui.tunnelHealth = tunnelHealthStatus)
  /\ [][/\ C39_UrlChanges => SentVal(out', "tunnel-url", tunnelUrl(currentTunnelURL'))
        /\ C39_HealthChanges => SentVal(out', "tunnel-health", tunnelHealthStatus')]_vars

\* The window shows the URL of the second tunnel process, published after a
\* monitor restart, and the health "checking" a failed check has just set.
C39_Witness ==
  /\ currentTunnelURL = 2
  /\ ui.tunnelURL = tunnelUrl(2)
  /\ tunnelHealthStatus = "checking"
  /\ ui.tunnelHealth = "checking"
  /\ out = <<Ev("tunnel-health", "checking")>>


\* C40: the UI's view of presence equals the tracker's state: in every
\* reachable state the window shows a client as connected exactly when the
\* tracker holds it connected, and as away exactly when the tracker holds it
\* away.
C40_UiShowsPresence ==
  /\ ui.clientConnected = clientConnectedState
  /\ ui.clientAway = clientAwayState

\* C40, the steps: every step that changes the tracker's connected or away
\* state sends the event of the new state.
C40_PresenceChanges ==
  \/ clientConnectedState' # clientConnectedState
  \/ clientAwayState' # clientAwayState

C40_PresenceEvent ==
  IF ~clientConnectedState' THEN Sent(out', "client-disconnected")
  ELSE IF clientAwayState' THEN Sent(out', "client-away")
  ELSE Sent(out', "client-connected")

C40_ChangesEmit == [][C40_PresenceChanges => C40_PresenceEvent]_vars

\* C40 for the states before a full shutdown.
C40_UiShowsPresenceUntilShutdown == ~hist.shutdown => C40_UiShowsPresence

====
